---- MODULE Spec2Model ----
(***************************************************************************)
(* Model of the Privy plugin: the policy rule editor (allowlistToken,      *)
(* denylistToken), the configuration validator and the action handlers.    *)
(*                                                                         *)
(* JavaScript objects that are shared by reference are modelled by a heap: *)
(* a policy's method_rules array holds references (indices into heap) to   *)
(* MethodRule objects, so that the array copy [...method_rules] made by    *)
(* the editor shares the MethodRule objects with the policy it copies.     *)
(***************************************************************************)
EXTENDS Integers, Sequences, FiniteSets, TLC

VARIABLES
    existingPolicy,   \* the PrivyPolicyResponse object handed to the editor
    heap,             \* the MethodRule objects, by reference
    updatedPolicy,    \* the PrivyUpdatePolicy object the last editor call returned
    call,             \* the last editor call: operation, arguments, policy value before it
    prevCall,         \* the editor call before the last one
    original,         \* the value of existingPolicy when it was handed over
    settings,         \* the host's settings store: what runtime.getSetting returns
    config,           \* the plugin's configuration (this.config)
    remotePolicy,     \* the policy resource held by the remote service
    proc,             \* the handler invocations: position, arguments, requests sent, outcome
    client            \* a resource client used directly: its arguments, requests sent, outcome

editorVars == <<existingPolicy, heap, updatedPolicy, call, prevCall, original>>

handlerVars == <<settings, config, remotePolicy, proc, client>>

vars == <<existingPolicy, heap, updatedPolicy, call, prevCall, original,
          settings, config, remotePolicy, proc, client>>

----------------------------------------------------------------------------
(* Bounds of the model *)

\* longest rule list of a MethodRule: initial policies hold no more rules, and the
\* editor is not asked to add to a rule list of this length
MaxRules == 2

----------------------------------------------------------------------------
(* Values *)

\* a condition value is string | number | string[]; === compares type, then value
StrVal(s) == [type |-> "string", val |-> s]
NumVal(n) == [type |-> "number", val |-> n]
ArrVal(a) == [type |-> "array", val |-> a]

StrictEq(value, str) == value.type = "string" /\ value.val = str

Cond(fs, f, op, v) == [field_source |-> fs, field |-> f, operator |-> op, value |-> v]

Rule(n, cs, a) == [name |-> n, has_conditions |-> TRUE, conditions |-> cs, action |-> a]

TokenNames == {"USDT", "USDC"}
TokenAddresses == {"0xAAA", "0xBBB"}
PolicyNames == {"DefaultPolicy"}
Methods == {"eth_sendTransaction", "eth_signTransaction"}

\* the rules an existing policy may hold besides those the editor adds: other names on
\* a token address, a DENY rule with several conditions, values that are not the address
\* string, conditions on another field or field source, and a rule without conditions
RulePool ==
    { Rule("Allowlist USDT", <<Cond("ethereum_transaction", "to", "eq", StrVal("0xAAA"))>>, "ALLOW"),
      Rule("Treasury", <<Cond("ethereum_transaction", "to", "eq", StrVal("0xAAA"))>>, "ALLOW"),
      Rule("Block", <<Cond("ethereum_transaction", "value", "gt", NumVal(5)),
                      Cond("ethereum_transaction", "to", "neq", StrVal("0xAAA"))>>, "DENY"),
      Rule("Near", <<Cond("ethereum_transaction", "to", "eq", StrVal("0xaaa")),
                     Cond("ethereum_transaction", "to", "in", ArrVal(<<"0xAAA">>))>>, "ALLOW"),
      Rule("Elsewhere", <<Cond("ethereum_calldata", "to", "eq", StrVal("0xAAA")),
                          Cond("ethereum_transaction", "value", "eq", StrVal("0xAAA"))>>, "ALLOW"),
      [name |-> "Bare", has_conditions |-> FALSE, conditions |-> <<>>, action |-> "DENY"] }

SeqsUpTo(S, n) == UNION { [1..k -> S] : k \in 0..n }

MethodRule(m, rs) == [method |-> m, rules |-> rs]

\* the first MethodRule of an initial policy, and the ones that may follow it
FirstMethodRules == { MethodRule(m, rs) : m \in Methods, rs \in SeqsUpTo(RulePool, MaxRules) }
OtherMethodRules ==
    { MethodRule("eth_signTransaction", <<>>),
      MethodRule("eth_sendTransaction",
                 <<Rule("Allowlist USDT", <<Cond("ethereum_transaction", "to", "eq", StrVal("0xAAA"))>>, "ALLOW")>>) }

\* the MethodRule lists of the initial policies
InitMethodRules ==
    {<<>>} \cup { <<f>> : f \in FirstMethodRules }
           \cup { <<f, o>> : f \in FirstMethodRules, o \in OtherMethodRules }

----------------------------------------------------------------------------
(* The heap *)

\* the policy object whose method_rules array refers to the objects of heap h, in order
PolicyObject(n, present, h) ==
    [name |-> n, has_method_rules |-> present, method_rules |-> [i \in 1..Len(h) |-> i]]

\* the value of a policy object (PrivyPolicyResponse) in heap h
PolicyValue(h, p) ==
    [name |-> p.name,
     has_method_rules |-> p.has_method_rules,
     method_rules |-> [i \in 1..Len(p.method_rules) |-> h[p.method_rules[i]]]]

\* the value of an update object (PrivyUpdatePolicy) in heap h
UpdateValue(h, u) ==
    [name |-> u.name,
     method_rules |-> [i \in 1..Len(u.method_rules) |-> h[u.method_rules[i]]]]

----------------------------------------------------------------------------
(* The policy rule editor *)

newRule(tokenName, tokenAddress) ==
    [name |-> "Allowlist " \o tokenName,
     has_conditions |-> TRUE,
     conditions |-> <<[field_source |-> "ethereum_transaction",
                       field |-> "to",
                       operator |-> "eq",
                       value |-> StrVal(tokenAddress)]>>,
     action |-> "ALLOW"]

\* a copy that takes the default policy name in place of the policy's own
CopyEditable_defaultName(policy) ==
    [name |-> "DefaultPolicy",
     method_rules |-> IF policy.has_method_rules THEN policy.method_rules ELSE <<>>]

\* { name: existingPolicy.name, method_rules: existingPolicy.method_rules ? [...] : [] }
CopyEditable(policy) ==
    [name |-> policy.name,
     method_rules |-> IF policy.has_method_rules THEN policy.method_rules ELSE <<>>]

\* allowlistToken with unshift in place of push
allowlistToken_unshift(h, policy, tokenName, tokenAddress) ==
    LET updated == CopyEditable(policy)
    IN  IF Len(updated.method_rules) >= 1
        THEN [ret |-> updated,
              heap |-> [h EXCEPT ![updated.method_rules[1]].rules =
                                     <<newRule(tokenName, tokenAddress)>> \o @]]
        ELSE [ret |-> updated, heap |-> h]

\* allowlistToken that puts the new rule in the place of the rules for the same address
allowlistToken_replaces(h, policy, tokenName, tokenAddress) ==
    LET updated == CopyEditable(policy)
        other(rule) ==
            ~(rule.has_conditions /\ \E i \in 1..Len(rule.conditions) :
                  rule.conditions[i] = newRule(tokenName, tokenAddress).conditions[1])
    IN  IF Len(updated.method_rules) >= 1
        THEN [ret |-> updated,
              heap |-> [h EXCEPT ![updated.method_rules[1]].rules =
                                     Append(SelectSeq(@, other),
                                            newRule(tokenName, tokenAddress))]]
        ELSE [ret |-> updated, heap |-> h]

\* allowlistToken that skips the push when a rule with the same condition is present
allowlistToken_dedup(h, policy, tokenName, tokenAddress) ==
    LET updated == CopyEditable(policy)
        present(rules) == \E i \in 1..Len(rules) :
                             rules[i].conditions = newRule(tokenName, tokenAddress).conditions
    IN  IF Len(updated.method_rules) >= 1 /\ ~present(h[updated.method_rules[1]].rules)
        THEN [ret |-> updated,
              heap |-> [h EXCEPT ![updated.method_rules[1]].rules =
                                     Append(@, newRule(tokenName, tokenAddress))]]
        ELSE [ret |-> updated, heap |-> h]

\* allowlistToken that pushes onto the first MethodRule of method eth_sendTransaction
allowlistToken_byMethod(h, policy, tokenName, tokenAddress) ==
    LET updated == CopyEditable(policy)
        sends == { i \in DOMAIN updated.method_rules :
                      h[updated.method_rules[i]].method = "eth_sendTransaction" }
    IN  IF sends # {}
        THEN LET first == CHOOSE i \in sends : \A j \in sends : i <= j
             IN  [ret |-> updated,
                  heap |-> [h EXCEPT ![updated.method_rules[first]].rules =
                                         Append(@, newRule(tokenName, tokenAddress))]]
        ELSE [ret |-> updated, heap |-> h]

\* allowlistToken that makes a MethodRule for the new rule when the policy has none
allowlistToken_creates(h, policy, tokenName, tokenAddress) ==
    LET updated == CopyEditable(policy)
    IN  IF Len(updated.method_rules) >= 1
        THEN [ret |-> updated,
              heap |-> [h EXCEPT ![updated.method_rules[1]].rules =
                                     Append(@, newRule(tokenName, tokenAddress))]]
        ELSE [ret |-> [updated EXCEPT !.method_rules = <<Len(h) + 1>>],
              heap |-> Append(h, [method |-> "eth_sendTransaction",
                                  rules |-> <<newRule(tokenName, tokenAddress)>>])]

\* the result object and the heap after the call
allowlistToken(h, policy, tokenName, tokenAddress) ==
    LET updated == CopyEditable(policy)
    IN  IF Len(updated.method_rules) >= 1
        THEN [ret |-> updated,
              heap |-> [h EXCEPT ![updated.method_rules[1]].rules =
                                     Append(@, newRule(tokenName, tokenAddress))]]
        ELSE [ret |-> updated, heap |-> h]

\* isTokenRule with every in place of some
isTokenRule_every(rule, tokenAddress) ==
    /\ rule.has_conditions
    /\ \A i \in 1..Len(rule.conditions) :
          /\ rule.conditions[i].field_source = "ethereum_transaction"
          /\ rule.conditions[i].field = "to"
          /\ StrictEq(rule.conditions[i].value, tokenAddress)

\* isTokenRule that takes only conditions with the operator eq
isTokenRule_eqOnly(rule, tokenAddress) ==
    /\ rule.has_conditions
    /\ \E i \in 1..Len(rule.conditions) :
          /\ rule.conditions[i].field_source = "ethereum_transaction"
          /\ rule.conditions[i].field = "to"
          /\ rule.conditions[i].operator = "eq"
          /\ StrictEq(rule.conditions[i].value, tokenAddress)

\* isTokenRule without the test of the field name
isTokenRule_anyField(rule, tokenAddress) ==
    /\ rule.has_conditions
    /\ \E i \in 1..Len(rule.conditions) :
          /\ rule.conditions[i].field_source = "ethereum_transaction"
          /\ StrictEq(rule.conditions[i].value, tokenAddress)

\* rule.conditions?.some(c => c.field_source === ... && c.field === "to" && c.value === tokenAddress)
isTokenRule(rule, tokenAddress) ==
    /\ rule.has_conditions
    /\ \E i \in 1..Len(rule.conditions) :
          /\ rule.conditions[i].field_source = "ethereum_transaction"
          /\ rule.conditions[i].field = "to"
          /\ StrictEq(rule.conditions[i].value, tokenAddress)

\* a filter that drops only the first rule for the token address
FilterRules_firstOnly(rules, tokenAddress) ==
    LET hits == { i \in 1..Len(rules) : isTokenRule(rules[i], tokenAddress) }
    IN  IF hits = {} THEN rules
        ELSE LET first == CHOOSE i \in hits : \A j \in hits : i <= j
             IN  SubSeq(rules, 1, first - 1) \o SubSeq(rules, first + 1, Len(rules))

FilterRules(rules, tokenAddress) ==
    LET keep(rule) == ~isTokenRule(rule, tokenAddress)
    IN  SelectSeq(rules, keep)

\* denylistToken that removes only the rules named after the token
denylistToken_byName(h, policy, tokenName, tokenAddress) ==
    LET updated == CopyEditable(policy)
        keep(rule) == ~(isTokenRule(rule, tokenAddress) /\ rule.name = "Allowlist " \o tokenName)
    IN  IF Len(updated.method_rules) >= 1
        THEN [ret |-> updated,
              heap |-> [h EXCEPT ![updated.method_rules[1]].rules = SelectSeq(@, keep)]]
        ELSE [ret |-> updated, heap |-> h]

denylistToken(h, policy, tokenName, tokenAddress) ==
    LET updated == CopyEditable(policy)
    IN  IF Len(updated.method_rules) >= 1
        THEN [ret |-> updated,
              heap |-> [h EXCEPT ![updated.method_rules[1]].rules =
                                     FilterRules(@, tokenAddress)]]
        ELSE [ret |-> updated, heap |-> h]

----------------------------------------------------------------------------
(* Strings *)

\* String.prototype.includes
Includes(str, sub) ==
    \E i \in 1..(Len(str) - Len(sub) + 1) : SubSeq(str, i, i + Len(sub) - 1) = sub

\* a replace that takes out every occurrence of the pattern, as replaceAll does
RECURSIVE Replace_all(_, _, _)
Replace_all(str, pat, rep) ==
    IF Len(pat) > 0 /\ Includes(str, pat)
    THEN LET i == CHOOSE k \in 1..(Len(str) - Len(pat) + 1) :
                     /\ SubSeq(str, k, k + Len(pat) - 1) = pat
                     /\ \A j \in 1..(k - 1) : SubSeq(str, j, j + Len(pat) - 1) # pat
         IN  SubSeq(str, 1, i - 1) \o rep
                 \o Replace_all(SubSeq(str, i + Len(pat), Len(str)), pat, rep)
    ELSE str

\* String.prototype.replace with a string pattern: the first occurrence only
Replace(str, pat, rep) ==
    IF Includes(str, pat)
    THEN LET i == CHOOSE k \in 1..(Len(str) - Len(pat) + 1) :
                     /\ SubSeq(str, k, k + Len(pat) - 1) = pat
                     /\ \A j \in 1..(k - 1) : SubSeq(str, j, j + Len(pat) - 1) # pat
         IN  SubSeq(str, 1, i - 1) \o rep \o SubSeq(str, i + Len(pat), Len(str))
    ELSE str

\* Array.prototype.join
RECURSIVE Join(_, _)
Join(strs, sep) ==
    IF strs = <<>> THEN ""
    ELSE IF Len(strs) = 1 THEN strs[1]
    ELSE strs[1] \o sep \o Join(Tail(strs), sep)

UpperCaseLetters == "ABCDEFGHIJKLMNOPQRSTUVWXYZ"
LowerCaseLetters == "abcdefghijklmnopqrstuvwxyz"

\* String.prototype.toLowerCase, on ASCII
RECURSIVE toLowerCase(_)
toLowerCase(str) ==
    IF Len(str) = 0 THEN ""
    ELSE LET c == SubSeq(str, 1, 1)
             ks == { k \in 1..Len(UpperCaseLetters) : SubSeq(UpperCaseLetters, k, k) = c }
             lc == IF ks = {} THEN c
                   ELSE LET k == CHOOSE k \in ks : TRUE IN SubSeq(LowerCaseLetters, k, k)
         IN  lc \o toLowerCase(SubSeq(str, 2, Len(str)))

----------------------------------------------------------------------------
(* Optional string values: settings, options *)

Absent == [defined |-> FALSE, val |-> ""]
Str(s) == [defined |-> TRUE, val |-> s]

\* a test against undefined in place of the truthiness test
Truthy_definedOnly(x) == x.defined

\* JavaScript truthiness of an optional string
Truthy(x) == x.defined /\ x.val # ""

\* x || y
OrElse(x, y) == IF Truthy(x) THEN x ELSE y

\* thrown values and what a function hands back
Error(msg) == [name |-> "Error", message |-> msg]
Throw(err) == [kind |-> "throw", error |-> err]
Value(v) == [kind |-> "value", value |-> v]

----------------------------------------------------------------------------
(* Config validator *)

\* validatePrivyConfig that asks for the App ID only
validatePrivyConfig_idOnly(store) ==
    IF ~Truthy(store.PRIVY_APP_ID)
    THEN Throw(Error("Privy App ID is required"))
    ELSE Value([PRIVY_APP_ID |-> store.PRIVY_APP_ID,
                PRIVY_APP_SECRET |-> store.PRIVY_APP_SECRET,
                PRIVY_MONAD_RPC_URL |-> OrElse(store.PRIVY_MONAD_RPC_URL, Absent),
                PRIVY_MONAD_CHAIN_ID |-> OrElse(store.PRIVY_MONAD_CHAIN_ID, Absent)])

\* validatePrivyConfig that hands the optional settings back as the store holds them
validatePrivyConfig_keepsEmpty(store) ==
    IF ~Truthy(store.PRIVY_APP_ID)
    THEN Throw(Error("Privy App ID is required"))
    ELSE IF ~Truthy(store.PRIVY_APP_SECRET)
    THEN Throw(Error("Privy App Secret is required"))
    ELSE Value([PRIVY_APP_ID |-> store.PRIVY_APP_ID,
                PRIVY_APP_SECRET |-> store.PRIVY_APP_SECRET,
                PRIVY_MONAD_RPC_URL |-> store.PRIVY_MONAD_RPC_URL,
                PRIVY_MONAD_CHAIN_ID |-> store.PRIVY_MONAD_CHAIN_ID])

\* store: what runtime.getSetting returns for each key
validatePrivyConfig(store) ==
    IF ~Truthy(store.PRIVY_APP_ID)
    THEN Throw(Error("Privy App ID is required"))
    ELSE IF ~Truthy(store.PRIVY_APP_SECRET)
    THEN Throw(Error("Privy App Secret is required"))
    ELSE Value([PRIVY_APP_ID |-> store.PRIVY_APP_ID,
                PRIVY_APP_SECRET |-> store.PRIVY_APP_SECRET,
                PRIVY_MONAD_RPC_URL |-> OrElse(store.PRIVY_MONAD_RPC_URL, Absent),
                PRIVY_MONAD_CHAIN_ID |-> OrElse(store.PRIVY_MONAD_CHAIN_ID, Absent)])

Store(id, secret, rpc, chain) ==
    [PRIVY_APP_ID |-> id, PRIVY_APP_SECRET |-> secret,
     PRIVY_MONAD_RPC_URL |-> rpc, PRIVY_MONAD_CHAIN_ID |-> chain]

\* the states of the settings store
SettingsStates ==
    { Store(Str("app-1"), Str("s3cret"), Absent, Str("10143")),
      Store(Str("app-2"), Str("k3y"), Str("https://rpc.monad"), Str("")),
      Store(Str("app-1"), Absent, Absent, Absent),
      Store(Str("app-1"), Str(""), Str("https://rpc.monad"), Absent),
      Store(Absent, Str("s3cret"), Absent, Absent),
      Store(Str(""), Absent, Absent, Absent) }

----------------------------------------------------------------------------
(* Plugin configuration *)

DEFAULT_CONFIG == [defaultPolicyName |-> Str("DefaultPolicy"), defaultPolicyId |-> Str("")]

\* new PrivyPlugin(config): { ...DEFAULT_CONFIG, ...config }
PluginConfigs ==
    { DEFAULT_CONFIG, [DEFAULT_CONFIG EXCEPT !.defaultPolicyId = Str("pol-1")] }

----------------------------------------------------------------------------
(* Remote resource clients: requests *)

POLICIES_URL == "https://api.privy.io/v1/policies"
WALLETS_URL == "https://api.privy.io/v1/wallets"

\* the headers of a request; the signature header is set only where the code sets it
Headers(privyAppID, privyAppSecret, authRequestKey, signs) ==
    [content_type |-> "application/json",
     privy_app_id |-> privyAppID,
     authorization |-> [scheme |-> "Basic", base64_of |-> privyAppID \o ":" \o privyAppSecret],
     privy_authorization_signature |->
         IF signs /\ Truthy(authRequestKey) THEN authRequestKey ELSE Absent]

NoBody == [kind |-> "none"]

Request(method, url, headers, body) ==
    [method |-> method, url |-> url, headers |-> headers, body |-> body]

\* a client operation either throws before any request or issues one request
Fetch(req) == [kind |-> "fetch", request |-> req]

\* createPolicy whose template holds no MethodRule
createPolicy_noMethodRule(name, privyAppID, privyAppSecret, authRequestKey) ==
    Fetch(Request("POST", POLICIES_URL,
                  Headers(privyAppID, privyAppSecret, authRequestKey, TRUE),
                  [kind |-> "create_policy",
                   version |-> "1.0",
                   name |-> name,
                   chain_type |-> "ethereum",
                   method_rules |-> <<>>,
                   default_action |-> "DENY"]))

\* createPolicy whose template allows by default
createPolicy_allows(name, privyAppID, privyAppSecret, authRequestKey) ==
    Fetch(Request("POST", POLICIES_URL,
                  Headers(privyAppID, privyAppSecret, authRequestKey, TRUE),
                  [kind |-> "create_policy",
                   version |-> "1.0",
                   name |-> name,
                   chain_type |-> "ethereum",
                   method_rules |-> <<[method |-> "eth_sendTransaction", rules |-> <<>>]>>,
                   default_action |-> "ALLOW"]))

\* policyService(name, id, secret, authRequestKey).createPolicy()
createPolicy(name, privyAppID, privyAppSecret, authRequestKey) ==
    Fetch(Request("POST", POLICIES_URL,
                  Headers(privyAppID, privyAppSecret, authRequestKey, TRUE),
                  [kind |-> "create_policy",
                   version |-> "1.0",
                   name |-> name,
                   chain_type |-> "ethereum",
                   method_rules |-> <<[method |-> "eth_sendTransaction", rules |-> <<>>]>>,
                   default_action |-> "DENY"]))

\* policyService(...).getPolicy(policyId)
getPolicy(policyId, privyAppID, privyAppSecret, authRequestKey) ==
    IF ~Truthy(policyId)
    THEN Throw(Error("Invalid parameters"))
    ELSE Fetch(Request("GET", POLICIES_URL \o "/" \o policyId.val,
                       Headers(privyAppID, privyAppSecret, authRequestKey, TRUE), NoBody))

\* policyService(...).updatePolicy: its first request is the read of the policy
updatePolicy(policyId, privyAppID, privyAppSecret, authRequestKey) ==
    IF ~Truthy(policyId)
    THEN Throw(Error("Invalid parameters"))
    ELSE getPolicy(policyId, privyAppID, privyAppSecret, authRequestKey)

\* updatePolicy with the branches of remove ? denylistToken : allowlistToken swapped
updatePolicyWrite_swapped(existing, policyId, tokenName, tokenAddress, remove, privyAppID, privyAppSecret) ==
    LET h == existing.method_rules
        obj == PolicyObject(existing.name, TRUE, h)
        r == IF remove THEN allowlistToken(h, obj, tokenName, tokenAddress)
                       ELSE denylistToken(h, obj, tokenName, tokenAddress)
        updated == UpdateValue(r.heap, r.ret)
    IN  Fetch(Request("PATCH", POLICIES_URL \o "/" \o policyId.val,
                      Headers(privyAppID, privyAppSecret, Absent, FALSE),
                      [kind |-> "update_policy",
                       name |-> updated.name,
                       method_rules |-> updated.method_rules]))

\* policyService(...).updatePolicy: the editor and the write, on the policy read
updatePolicyWrite(existing, policyId, tokenName, tokenAddress, remove, privyAppID, privyAppSecret) ==
    LET h == existing.method_rules
        obj == PolicyObject(existing.name, TRUE, h)
        r == IF remove THEN denylistToken(h, obj, tokenName, tokenAddress)
                       ELSE allowlistToken(h, obj, tokenName, tokenAddress)
        updated == UpdateValue(r.heap, r.ret)
    IN  Fetch(Request("PATCH", POLICIES_URL \o "/" \o policyId.val,
                      Headers(privyAppID, privyAppSecret, Absent, FALSE),
                      [kind |-> "update_policy",
                       name |-> updated.name,
                       method_rules |-> updated.method_rules]))

\* walletService(id, secret, authRequestKey).createWallet(request)
createWallet(request, privyAppID, privyAppSecret, authRequestKey) ==
    Fetch(Request("POST", WALLETS_URL,
                  Headers(privyAppID, privyAppSecret, authRequestKey, TRUE),
                  [kind |-> "create_wallet",
                   chain_type |-> request.chain_type,
                   policy_ids |-> request.policy_ids]))

\* walletService(...).updateWallet(walletId, request)
updateWallet(walletId, request, privyAppID, privyAppSecret, authRequestKey) ==
    IF ~Truthy(walletId)
    THEN Throw(Error("Wallet ID is required"))
    ELSE Fetch(Request("PATCH", WALLETS_URL \o "/" \o walletId.val,
                       Headers(privyAppID, privyAppSecret, authRequestKey, FALSE),
                       [kind |-> "update_wallet", policy_ids |-> request.policy_ids]))

\* walletService(...).getWallets()
getWallets(privyAppID, privyAppSecret, authRequestKey) ==
    Fetch(Request("GET", WALLETS_URL,
                  Headers(privyAppID, privyAppSecret, authRequestKey, FALSE), NoBody))

\* walletService(...).sendTransaction(request)
sendTransaction(request, privyAppID, privyAppSecret, authRequestKey) ==
    IF ~Truthy(request.wallet_id)
    THEN Throw(Error("Wallet ID is required"))
    ELSE Fetch(Request("POST", WALLETS_URL \o "/" \o request.wallet_id.val \o "/transactions",
                       Headers(privyAppID, privyAppSecret, authRequestKey, FALSE),
                       [kind |-> "send_transaction",
                        to |-> request.to, value |-> request.value, data |-> request.data]))

\* walletService(...).signTransaction(walletId, message)
signTransaction(walletId, message, privyAppID, privyAppSecret, authRequestKey) ==
    IF ~Truthy(walletId)
    THEN Throw(Error("Wallet ID is required"))
    ELSE Fetch(Request("POST", WALLETS_URL \o "/" \o walletId.val \o "/sign",
                       Headers(privyAppID, privyAppSecret, authRequestKey, FALSE),
                       [kind |-> "sign", message |-> message]))

----------------------------------------------------------------------------
(* Remote resource clients: responses *)

\* an HTTP response: fetch rejected, or a status with a body that is JSON (an object with
\* or without a message field) or is not JSON (text holds the body as sent)
NetworkFailure == [kind |-> "network"]
HttpOk ==
    [kind |-> "http", ok |-> TRUE, statusText |-> "OK", json |-> TRUE, message |-> Absent,
     text |-> ""]
HttpError(statusText, json, message) ==
    [kind |-> "http", ok |-> FALSE, statusText |-> statusText, json |-> json,
     message |-> message, text |-> ""]

\* the response with a body that is not JSON
WithBody(response, text) == [response EXCEPT !.json = FALSE, !.text = text]

\* a success status with an empty body
HttpOkNotJson == WithBody(HttpOk, "")

\* what the remote service may answer besides success
Failures ==
    { NetworkFailure,
      HttpError("Forbidden", TRUE, Str("Transaction denied")),
      HttpError("Forbidden", TRUE, Str("Violates policy limits")),
      HttpError("Not Found", TRUE, Str("Resource not found")),
      HttpError("Bad Request", TRUE, Absent),
      WithBody(HttpError("Bad Gateway", FALSE, Absent), "<html>Bad Gateway</html>"),
      WithBody(HttpError("Forbidden", FALSE, Absent), "denied"),
      HttpError("", TRUE, Str("")) }

\* what response.json() rejects with on a body that is not JSON: the message names the
\* first character and quotes the body, its first ten characters when the body has more
\* than twenty. The bodies are empty or begin with a character no JSON text begins with.
JsonParseError(text) ==
    [name |-> "SyntaxError",
     message |->
        IF Len(text) = 0 THEN "Unexpected end of JSON input"
        ELSE "Unexpected token '" \o SubSeq(text, 1, 1) \o "', \""
                 \o (IF Len(text) < 21 THEN text \o "\"" ELSE SubSeq(text, 1, 10) \o "\"...")
                 \o " is not valid JSON"]
\* what fetch rejects with
FetchError == [name |-> "TypeError", message |-> "fetch failed"]

\* the part every client operation runs on its response: the data, or the error thrown
ReadResponse(response, data) ==
    IF response.kind = "network" THEN Throw(FetchError)
    ELSE IF ~response.ok
    THEN IF ~response.json THEN Throw(JsonParseError(response.text))
         ELSE Throw(Error(OrElse(response.message, Str(response.statusText)).val))
    ELSE IF ~response.json THEN Throw(JsonParseError(response.text))
    ELSE Value(data)

----------------------------------------------------------------------------
(* Action registry: the eight handlers *)

Actions ==
    { "PRIVY_GET_POLICY", "PRIVY_CREATE_POLICY", "PRIVY_UPDATE_POLICY", "PRIVY_CREATE_WALLET",
      "PRIVY_UPDATE_WALLET", "PRIVY_GET_WALLETS", "PRIVY_SEND_TRANSACTION",
      "PRIVY_SIGN_TRANSACTION" }

\* the option bag of an invocation; remove stands for options.remove === true
NoOptions ==
    [policyId |-> Absent, name |-> Absent, tokenName |-> Absent, tokenAddress |-> Absent,
     remove |-> FALSE, chainType |-> Absent, walletId |-> Absent,
     policyIds |-> [defined |-> FALSE, val |-> <<>>],
     to |-> Absent, value |-> Absent, data |-> Absent, message |-> Absent]

\* the option bags each action is invoked with: complete ones and ones that lack a field
OptionsOf(action) ==
    CASE action = "PRIVY_GET_POLICY" ->
           { NoOptions, [NoOptions EXCEPT !.policyId = Str("pol-1")],
             [NoOptions EXCEPT !.policyId = Str("pol-9")] }
      [] action = "PRIVY_CREATE_POLICY" ->
           { NoOptions, [NoOptions EXCEPT !.name = Str("Treasury")],
             [NoOptions EXCEPT !.name = Str(""), !.chainType = Str("solana"),
                               !.tokenName = Str("USDT"), !.tokenAddress = Str("0xAAA")] }
      [] action = "PRIVY_UPDATE_POLICY" ->
           { [NoOptions EXCEPT !.tokenName = Str("USDT"), !.tokenAddress = Str("0xAAA")],
             [NoOptions EXCEPT !.policyId = Str("pol-1"), !.tokenAddress = Str("0xAAA")],
             [NoOptions EXCEPT !.policyId = Str("pol-1"), !.tokenName = Str("USDT"),
                               !.tokenAddress = Str("")] }
           \cup { [NoOptions EXCEPT !.policyId = Str("pol-1"), !.tokenName = Str("USDT"),
                                    !.tokenAddress = Str("0xAAA"), !.remove = r] :
                     r \in BOOLEAN }
           \cup { [NoOptions EXCEPT !.tokenName = Str("USDC"), !.tokenAddress = Str("0xBBB"),
                                    !.remove = TRUE] }
      [] action = "PRIVY_CREATE_WALLET" ->
           { NoOptions, [NoOptions EXCEPT !.chainType = Str("Monad")],
             [NoOptions EXCEPT !.chainType = Str("solana"), !.policyId = Str("pol-1")],
             [NoOptions EXCEPT !.chainType = Str("bitcoin")] }
      [] action = "PRIVY_UPDATE_WALLET" ->
           { [NoOptions EXCEPT !.policyIds = [defined |-> TRUE, val |-> <<"pol-1">>]],
             [NoOptions EXCEPT !.walletId = Str("w1")],
             [NoOptions EXCEPT !.walletId = Str("w1"),
                               !.policyIds = [defined |-> TRUE, val |-> <<>>]],
             [NoOptions EXCEPT !.walletId = Str("w1"),
                               !.policyIds = [defined |-> TRUE, val |-> <<"pol-1">>]] }
      [] action = "PRIVY_GET_WALLETS" -> { NoOptions }
      [] action = "PRIVY_SEND_TRANSACTION" ->
           { [NoOptions EXCEPT !.to = Str("0xAAA"), !.value = Str("1")],
             [NoOptions EXCEPT !.walletId = Str("w1"), !.value = Str("1")],
             [NoOptions EXCEPT !.walletId = Str("w1"), !.to = Str("0xAAA")],
             [NoOptions EXCEPT !.walletId = Str("w1"), !.to = Str("0xAAA"), !.value = Str("1")] }
      [] action = "PRIVY_SIGN_TRANSACTION" ->
           { [NoOptions EXCEPT !.message = Str("hello")],
             [NoOptions EXCEPT !.walletId = Str("w1")],
             [NoOptions EXCEPT !.walletId = Str("w1"), !.message = Str("hello")] }

\* what a handler hands back: { success, response, data? }
NoData == [kind |-> "none"]
Result(success, response, data) == [success |-> success, response |-> response, data |-> data]
Return(result) == [kind |-> "return", result |-> result]

\* (options?.policyId as string) || this.config.defaultPolicyId
PolicyIdOf(pluginConfig, options) == OrElse(options.policyId, pluginConfig.defaultPolicyId)

\* (options?.name as string) || this.config.defaultPolicyName || "DefaultPolicy"
PolicyNameOf(pluginConfig, options) ==
    OrElse(OrElse(options.name, pluginConfig.defaultPolicyName), Str("DefaultPolicy"))

\* a chain type taken as it is written: options?.chainType || "ethereum"
ChainTypeOf_caseSensitive(options) == OrElse(options.chainType, Str("ethereum")).val

\* (options?.chainType as string)?.toLowerCase() || "ethereum"
ChainTypeOf(options) ==
    IF options.chainType.defined
    THEN OrElse(Str(toLowerCase(options.chainType.val)), Str("ethereum")).val
    ELSE "ethereum"

\* a handler's try block up to its first await of a client: a result returned, an error
\* thrown, or the first request issued. cfg is what validatePrivyConfig handed back.
HandlerStart(action, cfg, pluginConfig, options) ==
    IF cfg.kind = "throw" THEN Throw(cfg.error)
    ELSE
    LET privyAppID == cfg.value.PRIVY_APP_ID.val
        privyAppSecret == cfg.value.PRIVY_APP_SECRET.val
        policyId == PolicyIdOf(pluginConfig, options)
        name == PolicyNameOf(pluginConfig, options)
    IN  CASE action = "PRIVY_GET_POLICY" ->
               IF ~Truthy(policyId)
               THEN Return(Result(FALSE, "Policy ID is required. Please specify a policy ID or set a default policy ID in the configuration.", NoData))
               ELSE getPolicy(policyId, privyAppID, privyAppSecret, Absent)
          [] action = "PRIVY_CREATE_POLICY" ->
               createPolicy(name.val, privyAppID, privyAppSecret, Absent)
          [] action = "PRIVY_UPDATE_POLICY" ->
               IF ~Truthy(policyId)
               THEN Return(Result(FALSE, "Policy ID is required. Please specify a policy ID or set a default policy ID in the configuration.", NoData))
               ELSE IF ~Truthy(options.tokenName) \/ ~Truthy(options.tokenAddress)
               THEN Return(Result(FALSE, "Token name and address are required for policy updates.", NoData))
               ELSE updatePolicy(policyId, privyAppID, privyAppSecret, Absent)
          [] action = "PRIVY_CREATE_WALLET" ->
               LET chainType == ChainTypeOf(options)
                   apiChainType == IF chainType = "monad" THEN "ethereum" ELSE chainType
               IN  IF chainType \notin {"ethereum", "solana", "monad"}
                   THEN Return(Result(FALSE, "Invalid chain type. Supported chain types are: ethereum, solana, monad.", NoData))
                   ELSE createWallet([chain_type |-> apiChainType,
                                      policy_ids |-> IF Truthy(policyId)
                                                     THEN [defined |-> TRUE, val |-> <<policyId.val>>]
                                                     ELSE [defined |-> FALSE, val |-> <<>>]],
                                     privyAppID, privyAppSecret, Absent)
          [] action = "PRIVY_UPDATE_WALLET" ->
               IF ~Truthy(options.walletId)
               THEN Return(Result(FALSE, "Wallet ID is required to update a wallet.", NoData))
               ELSE IF ~options.policyIds.defined \/ Len(options.policyIds.val) = 0
               THEN Return(Result(FALSE, "At least one policy ID is required for wallet updates.", NoData))
               ELSE updateWallet(options.walletId, [policy_ids |-> options.policyIds],
                                 privyAppID, privyAppSecret, Absent)
          [] action = "PRIVY_GET_WALLETS" ->
               getWallets(privyAppID, privyAppSecret, Absent)
          [] action = "PRIVY_SEND_TRANSACTION" ->
               IF ~Truthy(options.walletId) \/ ~Truthy(options.to) \/ ~Truthy(options.value)
               THEN Return(Result(FALSE, "Wallet ID, recipient address, and value are required for transactions.", NoData))
               ELSE sendTransaction([wallet_id |-> options.walletId, to |-> options.to,
                                     value |-> options.value, data |-> options.data],
                                    privyAppID, privyAppSecret, Absent)
          [] action = "PRIVY_SIGN_TRANSACTION" ->
               IF ~Truthy(options.walletId) \/ ~Truthy(options.message)
               THEN Return(Result(FALSE, "Wallet ID and message are required for signing.", NoData))
               ELSE signTransaction(options.walletId, options.message,
                                    privyAppID, privyAppSecret, Absent)

\* policyData.method_rules.flatMap(mr => mr.rules.map(rule => rule.name.replace("Allowlist ", "")))
RECURSIVE ruleNames(_)
ruleNames(method_rules) ==
    IF method_rules = <<>> THEN <<>>
    ELSE [i \in 1..Len(Head(method_rules).rules) |->
              Replace(Head(method_rules).rules[i].name, "Allowlist ", "")]
         \o ruleNames(Tail(method_rules))

\* walletsData.map(wallet => `Wallet ${wallet.id}: ${wallet.address} (${wallet.chain_type})`)
walletList(walletsData) ==
    [i \in 1..Len(walletsData) |->
        "Wallet " \o walletsData[i].id \o ": " \o walletsData[i].address
                  \o " (" \o walletsData[i].chain_type \o ")"]

\* a handler's try block after a client call answered with data: the result returned, or
\* (policy update, after its read) the next request. creds are the credentials the
\* invocation read when it started.
HandlerResume(action, phase, pluginConfig, options, creds, data) ==
    CASE action = "PRIVY_GET_POLICY" ->
           Return(Result(TRUE,
               "These are tokens that are allowed for transactions: "
                   \o Join(ruleNames(data.method_rules), ", ")
                   \o ". If the token you want to use is not on this list, you will need to request it to be added.",
               [kind |-> "policy", val |-> data]))
      [] action = "PRIVY_CREATE_POLICY" ->
           Return(Result(TRUE,
               "Successfully created a new compliance policy with ID: " \o data.id
                   \o ". You can now add approved tokens to this policy.",
               [kind |-> "policy", val |-> data]))
      [] action = "PRIVY_UPDATE_POLICY" ->
           IF phase = "read"
           THEN updatePolicyWrite(data, PolicyIdOf(pluginConfig, options), options.tokenName.val,
                                  options.tokenAddress.val, options.remove,
                                  creds.privyAppID, creds.privyAppSecret)
           ELSE LET act == IF options.remove THEN "removed from" ELSE "added to"
                IN  Return(Result(TRUE,
                        "Successfully " \o act \o " the policy: token " \o options.tokenName.val
                            \o " (" \o options.tokenAddress.val \o ") has been " \o act
                            \o " the allowlist.",
                        [kind |-> "policy", val |-> data]))
      [] action = "PRIVY_CREATE_WALLET" ->
           Return(Result(TRUE,
               IF ChainTypeOf(options) = "monad"
               THEN "Successfully created a new Monad wallet with address: " \o data.address
                        \o ". This wallet is compatible with the Monad blockchain."
               ELSE "Successfully created a new wallet with address: " \o data.address,
               [kind |-> "wallet", val |-> data]))
      [] action = "PRIVY_UPDATE_WALLET" ->
           Return(Result(TRUE,
               "Successfully updated wallet policies. The wallet now follows the specified compliance policies.",
               [kind |-> "wallet", val |-> data]))
      [] action = "PRIVY_GET_WALLETS" ->
           IF Len(data) = 0
           THEN Return(Result(TRUE,
                    "No wallets found. You can create a new wallet with the PRIVY_CREATE_WALLET action.",
                    NoData))
           ELSE Return(Result(TRUE,
                    "Here are your available wallets:\n" \o Join(walletList(data), "\n"),
                    [kind |-> "wallets", val |-> data]))
      [] action = "PRIVY_SEND_TRANSACTION" ->
           Return(Result(TRUE,
               "Transaction sent successfully! Transaction hash: " \o data.hash,
               [kind |-> "transaction", val |-> data]))
      [] action = "PRIVY_SIGN_TRANSACTION" ->
           Return(Result(TRUE,
               "Transaction signed successfully! Signature: " \o data.signature,
               [kind |-> "signature", val |-> data]))

\* how an invocation ends: the handler returned a result, or an error left the handler
Returned(result) == [kind |-> "returned", result |-> result]
Thrown(error) == [kind |-> "thrown", error |-> error]

\* a catch block that hands the error on to the caller
catchBlock_rethrows(action, error) == Thrown(error)

\* catch blocks whose send and sign test the message for "denied" only
catchBlock_deniedOnly(action, error) ==
    CASE action = "PRIVY_GET_POLICY" ->
           Returned(Result(FALSE, "Error retrieving policy: " \o error.message, NoData))
      [] action = "PRIVY_CREATE_POLICY" ->
           Returned(Result(FALSE, "Error creating policy: " \o error.message, NoData))
      [] action = "PRIVY_UPDATE_POLICY" ->
           Returned(Result(FALSE, "Error updating policy: " \o error.message, NoData))
      [] action = "PRIVY_CREATE_WALLET" ->
           Returned(Result(FALSE, "Error creating wallet: " \o error.message, NoData))
      [] action = "PRIVY_UPDATE_WALLET" ->
           Returned(Result(FALSE, "Error updating wallet: " \o error.message, NoData))
      [] action = "PRIVY_GET_WALLETS" ->
           Returned(Result(FALSE, "Error retrieving wallets: " \o error.message, NoData))
      [] action = "PRIVY_SEND_TRANSACTION" ->
           IF Includes(error.message, "denied")
           THEN Returned(Result(FALSE,
                    "Transaction failed due to policy restrictions: " \o error.message
                        \o ". This transaction may involve tokens or addresses that aren't allowed by your wallet's compliance policies.",
                    NoData))
           ELSE Returned(Result(FALSE, "Error sending transaction: " \o error.message, NoData))
      [] action = "PRIVY_SIGN_TRANSACTION" ->
           IF Includes(error.message, "denied")
           THEN Returned(Result(FALSE,
                    "Signing failed due to policy restrictions: " \o error.message
                        \o ". This operation may not be allowed by your wallet's compliance policies.",
                    NoData))
           ELSE Returned(Result(FALSE, "Error signing transaction: " \o error.message, NoData))

\* the handler's catch block
catchBlock(action, error) ==
    CASE action = "PRIVY_GET_POLICY" ->
           Returned(Result(FALSE, "Error retrieving policy: " \o error.message, NoData))
      [] action = "PRIVY_CREATE_POLICY" ->
           Returned(Result(FALSE, "Error creating policy: " \o error.message, NoData))
      [] action = "PRIVY_UPDATE_POLICY" ->
           Returned(Result(FALSE, "Error updating policy: " \o error.message, NoData))
      [] action = "PRIVY_CREATE_WALLET" ->
           Returned(Result(FALSE, "Error creating wallet: " \o error.message, NoData))
      [] action = "PRIVY_UPDATE_WALLET" ->
           Returned(Result(FALSE, "Error updating wallet: " \o error.message, NoData))
      [] action = "PRIVY_GET_WALLETS" ->
           Returned(Result(FALSE, "Error retrieving wallets: " \o error.message, NoData))
      [] action = "PRIVY_SEND_TRANSACTION" ->
           IF Includes(error.message, "policy") \/ Includes(error.message, "denied")
           THEN Returned(Result(FALSE,
                    "Transaction failed due to policy restrictions: " \o error.message
                        \o ". This transaction may involve tokens or addresses that aren't allowed by your wallet's compliance policies.",
                    NoData))
           ELSE Returned(Result(FALSE, "Error sending transaction: " \o error.message, NoData))
      [] action = "PRIVY_SIGN_TRANSACTION" ->
           IF Includes(error.message, "policy") \/ Includes(error.message, "denied")
           THEN Returned(Result(FALSE,
                    "Signing failed due to policy restrictions: " \o error.message
                        \o ". This operation may not be allowed by your wallet's compliance policies.",
                    NoData))
           ELSE Returned(Result(FALSE, "Error signing transaction: " \o error.message, NoData))

----------------------------------------------------------------------------
(* The remote service *)

\* the policy resource the remote service holds under the id "pol-1"
NoPolicy ==
    [exists |-> FALSE,
     value |-> [id |-> "", version |-> "", name |-> "", chain_type |-> "",
                method_rules |-> <<>>, default_action |-> ""]]

\* the policy a create request makes, under the id the service gives it
Created(body, id) ==
    [id |-> id, version |-> body.version, name |-> body.name, chain_type |-> body.chain_type,
     method_rules |-> body.method_rules, default_action |-> body.default_action]

\* the policy after an update request: the fields the body holds replace the policy's
Patched(policy, body) ==
    [policy EXCEPT !.name = body.name, !.method_rules = body.method_rules]

PolicyUrl(id) == POLICIES_URL \o "/" \o id

\* the service can answer the request with success
CanServe(req, remote) ==
    CASE req.body.kind = "create_policy" -> TRUE
      [] req.body.kind = "update_policy" ->
           /\ remote.exists
           /\ req.url = PolicyUrl(remote.value.id)
           /\ \A i \in DOMAIN req.body.method_rules :
                 Len(req.body.method_rules[i].rules) <= MaxRules
      [] req.body.kind = "none" /\ req.url # WALLETS_URL ->
           remote.exists /\ req.url = PolicyUrl(remote.value.id)
      [] OTHER -> TRUE

\* the policy resource after the service has served the request
RemoteAfter(req, remote) ==
    CASE req.body.kind = "create_policy" /\ ~remote.exists ->
           [exists |-> TRUE, value |-> Created(req.body, "pol-1")]
      [] req.body.kind = "update_policy" ->
           [remote EXCEPT !.value = Patched(remote.value, req.body)]
      [] OTHER -> remote

TheWallet == [id |-> "w1", address |-> "0xW1", chain_type |-> "ethereum"]
WalletLists == { <<>>, <<TheWallet, [id |-> "w2", address |-> "0xW2", chain_type |-> "solana"]>> }

\* the JSON body of the service's success response
RemoteData(req, remote, wallets) ==
    CASE req.body.kind = "create_policy" ->
           Created(req.body, IF remote.exists THEN "pol-2" ELSE "pol-1")
      [] req.body.kind = "update_policy" -> Patched(remote.value, req.body)
      [] req.body.kind = "none" /\ req.url # WALLETS_URL -> remote.value
      [] req.body.kind = "none" /\ req.url = WALLETS_URL -> wallets
      [] req.body.kind = "create_wallet" ->
           [id |-> "w1", address |-> "0xW1", chain_type |-> req.body.chain_type]
      [] req.body.kind = "update_wallet" -> TheWallet
      [] req.body.kind = "send_transaction" -> [hash |-> "0xHASH"]
      [] req.body.kind = "sign" -> [signature |-> "0xSIG"]

----------------------------------------------------------------------------
(* Invocations of the handlers *)

NoCompletion == [kind |-> "none"]
NoCreds == [privyAppID |-> "", privyAppSecret |-> ""]
NoAnswer == [kind |-> "none"]

\* validatePrivyConfig has not been called
NoCfg == [kind |-> "none"]

\* the JSON a response carried
Json(val) == [kind |-> "json", val |-> val]

\* the local existingPolicy of updatePolicy before its read has answered
NoSnapshot == NoPolicy.value

\* an invocation: where its handler stands (pc), the options object it was given, what
\* validatePrivyConfig handed back (cfg), the credentials taken from it, the requests
\* issued, the last response and its JSON, and how the handler ended
Idle ==
    [pc |-> "idle", action |-> "", options |-> NoOptions, phase |-> "", cfg |-> NoCfg,
     creds |-> NoCreds, sent |-> <<>>, answer |-> NoAnswer, data |-> NoData,
     snapshot |-> NoSnapshot, completion |-> NoCompletion]

\* the handler's try/catch: what its body returned is returned, what it threw is caught
Finish(action, step) ==
    IF step.kind = "throw" THEN catchBlock(action, step.error)
    ELSE Returned(step.result)

\* a handler that keeps the configuration of its earlier invocation instead of reading
\* the settings again
Invoke_cachesConfig(p, action, options) ==
    /\ proc[p].pc \in {"idle", "done"}
    /\ proc' = [proc EXCEPT ![p] =
          [Idle EXCEPT !.pc = "validating", !.action = action, !.options = options,
                       !.cfg = IF proc[p].cfg.kind = "value" THEN proc[p].cfg
                               ELSE validatePrivyConfig(settings)]]
    /\ UNCHANGED <<settings, config, remotePolicy, client>>
    /\ UNCHANGED editorVars

\* the handler is called: it calls validatePrivyConfig, which reads the settings store,
\* and awaits it; control is back with the caller
Invoke(p, action, options) ==
    /\ proc[p].pc \in {"idle", "done"}
    /\ proc' = [proc EXCEPT ![p] =
          [Idle EXCEPT !.pc = "validating", !.action = action, !.options = options,
                       !.cfg = validatePrivyConfig(settings)]]
    /\ UNCHANGED <<settings, config, remotePolicy, client>>
    /\ UNCHANGED editorVars

\* the caller changes the options object it handed over, before the handler has read it
ChangeOptions(p, options) ==
    /\ proc[p].pc = "validating"
    /\ options # proc[p].options
    /\ proc' = [proc EXCEPT ![p].options = options]
    /\ UNCHANGED <<settings, config, remotePolicy, client>>
    /\ UNCHANGED editorVars

\* the handler runs on from its await of validatePrivyConfig: it reads the options and the
\* plugin's configuration and runs to its first await of the remote service, or to its end
Start(p) ==
    LET me == proc[p]
        step == HandlerStart(me.action, me.cfg, config, me.options)
    IN  /\ me.pc = "validating"
        /\ proc' = [proc EXCEPT ![p] =
              IF step.kind = "fetch"
              THEN [me EXCEPT !.pc = "awaiting",
                              !.phase = IF me.action = "PRIVY_UPDATE_POLICY" THEN "read"
                                        ELSE "call",
                              !.creds = [privyAppID |-> me.cfg.value.PRIVY_APP_ID.val,
                                         privyAppSecret |-> me.cfg.value.PRIVY_APP_SECRET.val],
                              !.sent = <<step.request>>]
              ELSE [me EXCEPT !.pc = "done", !.completion = Finish(me.action, step)]]
        /\ UNCHANGED <<settings, config, remotePolicy, client>>
        /\ UNCHANGED editorVars

\* the remote service, or the transport, answers the request in flight: the service has
\* done what a request it answers with success asks for; the handler has not run on yet
Respond(p, response, wallets) ==
    LET me == proc[p]
        req == me.sent[Len(me.sent)]
        served == response.kind = "http" /\ response.ok
    IN  /\ me.pc = "awaiting"
        /\ served => CanServe(req, remotePolicy)
        /\ (served /\ req.method = "GET" /\ req.url = WALLETS_URL) \/ wallets = <<>>
        /\ remotePolicy' = IF served THEN RemoteAfter(req, remotePolicy) ELSE remotePolicy
        /\ proc' = [proc EXCEPT ![p] =
              [me EXCEPT !.pc = "answered", !.answer = response,
                         !.data = IF served /\ response.json
                                  THEN Json(RemoteData(req, remotePolicy, wallets))
                                  ELSE NoData]]
        /\ UNCHANGED <<settings, config, client>>
        /\ UNCHANGED editorVars

\* the handler's client runs on from its await of fetch: a rejected fetch lands in the
\* client's catch block; on a response the client tests response.ok and calls
\* response.json(), which it awaits
Read(p) ==
    LET me == proc[p]
    IN  /\ me.pc = "answered"
        /\ proc' = [proc EXCEPT ![p].pc = IF me.answer.kind = "http" THEN "reading" ELSE "read"]
        /\ UNCHANGED <<settings, config, remotePolicy, client>>
        /\ UNCHANGED editorVars

\* the body of the response has been read: response.json() resolves or rejects
BodyRead(p) ==
    /\ proc[p].pc = "reading"
    /\ proc' = [proc EXCEPT ![p].pc = "read"]
    /\ UNCHANGED <<settings, config, remotePolicy, client>>
    /\ UNCHANGED editorVars

\* what the client makes of the response it has read, and the handler of that: the next
\* request, the handler's result, or the error thrown
ResumeStep(me) ==
    LET read == ReadResponse(me.answer, me.data.val)
    IN  IF read.kind = "throw" THEN read
        ELSE HandlerResume(me.action, me.phase, config, me.options, me.creds, read.value)

\* the invocation is a policy update whose client is in getPolicy, the read of updatePolicy
InGetPolicy(me) == me.action = "PRIVY_UPDATE_POLICY" /\ me.phase = "read"

\* a client that issues its request once more after a failed response
Resume_retries(p) ==
    LET me == proc[p]
        req == me.sent[Len(me.sent)]
        read == ReadResponse(me.answer, me.data.val)
    IN  /\ me.pc = "read"
        /\ proc' = [proc EXCEPT ![p] =
              IF read.kind = "throw" /\ Len(me.sent) < 3
              THEN [me EXCEPT !.pc = "awaiting", !.sent = Append(@, req)]
              ELSE [me EXCEPT !.pc = IF InGetPolicy(me) THEN "resolved" ELSE "returned"]]
        /\ UNCHANGED <<settings, config, remotePolicy, client>>
        /\ UNCHANGED editorVars

\* the client operation that read the response runs on from its await of response.json()
\* (or in its catch block): it returns the data or throws, and its promise settles. For
\* getPolicy called by updatePolicy the promise is the one updatePolicy awaits; for every
\* other operation it is the one the handler awaits.
Resume(p) ==
    LET me == proc[p]
    IN  /\ me.pc = "read"
        /\ proc' = [proc EXCEPT ![p].pc = IF InGetPolicy(me) THEN "resolved" ELSE "returned"]
        /\ UNCHANGED <<settings, config, remotePolicy, client>>
        /\ UNCHANGED editorVars

\* an updatePolicy that goes on to its write, on an empty policy, when its read failed
Write_afterFailedRead(p) ==
    LET me == proc[p]
        read == ReadResponse(me.answer, me.data.val)
        empty == [NoSnapshot EXCEPT
                     !.method_rules = <<[method |-> "eth_sendTransaction", rules |-> <<>>]>>]
        policy == IF read.kind = "throw" THEN empty ELSE read.value
        step == HandlerResume(me.action, me.phase, config, me.options, me.creds, policy)
    IN  /\ me.pc = "resolved"
        /\ proc' = [proc EXCEPT ![p] =
              [me EXCEPT !.pc = "awaiting", !.phase = "write",
                         !.sent = Append(@, step.request), !.snapshot = policy]]
        /\ UNCHANGED <<settings, config, remotePolicy, client>>
        /\ UNCHANGED editorVars

\* updatePolicy runs on from its await of getPolicy: with the policy read it runs the editor
\* and issues its PATCH; when getPolicy threw, its catch block throws the error on and its
\* promise, the one the handler awaits, settles. It reads nothing but what getPolicy gave
\* and its locals.
Write(p) ==
    LET me == proc[p]
        step == ResumeStep(me)
    IN  /\ me.pc = "resolved"
        /\ proc' = [proc EXCEPT ![p] =
              IF step.kind = "fetch"
              THEN [me EXCEPT !.pc = "awaiting", !.phase = "write",
                              !.sent = Append(@, step.request),
                              !.snapshot = ReadResponse(me.answer, me.data.val).value]
              ELSE [me EXCEPT !.pc = "returned"]]
        /\ UNCHANGED <<settings, config, remotePolicy, client>>
        /\ UNCHANGED editorVars

\* the handler runs on from its await of the client, whose promise has settled, to its
\* result: the success result, or the failure result of its catch block
Complete(p) ==
    LET me == proc[p]
    IN  /\ me.pc = "returned"
        /\ proc' = [proc EXCEPT ![p] =
              [me EXCEPT !.pc = "done", !.phase = "",
                         !.completion = Finish(me.action, ResumeStep(me))]]
        /\ UNCHANGED <<settings, config, remotePolicy, client>>
        /\ UNCHANGED editorVars

\* the host changes its settings store
ChangeSettings(store) ==
    /\ store # settings
    /\ settings' = store
    /\ UNCHANGED <<config, remotePolicy, proc, client>>
    /\ UNCHANGED editorVars

----------------------------------------------------------------------------
(* The resource clients used directly, with or without an authorization request key *)

\* policyService(name, privyAppID, privyAppSecret, authRequestKey?) and
\* walletService(privyAppID, privyAppSecret, authRequestKey?): the arguments of the factory
Service(name, privyAppID, privyAppSecret, authRequestKey) ==
    [name |-> name, privyAppID |-> privyAppID, privyAppSecret |-> privyAppSecret,
     authRequestKey |-> authRequestKey]

Services ==
    { Service("DefaultPolicy", "app-1", "s3cret", key) : key \in {Absent, Str(""), Str("sig-1")} }

ClientOps ==
    { "createPolicy", "getPolicy", "updatePolicy", "createWallet", "updateWallet",
      "getWallets", "sendTransaction", "signTransaction" }

\* the arguments of a client operation
NoArgs ==
    [policyId |-> Absent, tokenName |-> "", tokenAddress |-> "", remove |-> FALSE,
     walletId |-> Absent, chain_type |-> "", policy_ids |-> [defined |-> FALSE, val |-> <<>>],
     to |-> Absent, value |-> Absent, data |-> Absent, message |-> Absent]

ArgsOf(op) ==
    CASE op = "getPolicy" -> { NoArgs, [NoArgs EXCEPT !.policyId = Str("pol-1")] }
      [] op = "updatePolicy" ->
           { [NoArgs EXCEPT !.tokenName = "USDT", !.tokenAddress = "0xAAA"] }
           \cup { [NoArgs EXCEPT !.policyId = Str("pol-1"), !.tokenName = "USDT",
                                    !.tokenAddress = a, !.remove = r] :
                     a \in TokenAddresses, r \in BOOLEAN }
      [] op = "createWallet" ->
           { [NoArgs EXCEPT !.chain_type = "ethereum"],
             [NoArgs EXCEPT !.chain_type = "solana",
                            !.policy_ids = [defined |-> TRUE, val |-> <<"pol-1">>]] }
      [] op = "updateWallet" ->
           { [NoArgs EXCEPT !.policy_ids = [defined |-> TRUE, val |-> <<"pol-1">>]],
             [NoArgs EXCEPT !.walletId = Str("w1"),
                            !.policy_ids = [defined |-> TRUE, val |-> <<"pol-1">>]] }
      [] op = "sendTransaction" ->
           { [NoArgs EXCEPT !.to = Str("0xAAA"), !.value = Str("1")],
             [NoArgs EXCEPT !.walletId = Str("w1"), !.to = Str("0xAAA"), !.value = Str("1")] }
      [] op = "signTransaction" ->
           { [NoArgs EXCEPT !.walletId = Str(""), !.message = Str("hello")],
             [NoArgs EXCEPT !.walletId = Str("w1"), !.message = Str("hello")] }
      [] OTHER -> { NoArgs }

\* the operation up to its first fetch: an error thrown, or the request issued
ClientStart(op, svc, args) ==
    CASE op = "createPolicy" ->
           createPolicy(svc.name, svc.privyAppID, svc.privyAppSecret, svc.authRequestKey)
      [] op = "getPolicy" ->
           getPolicy(args.policyId, svc.privyAppID, svc.privyAppSecret, svc.authRequestKey)
      [] op = "updatePolicy" ->
           updatePolicy(args.policyId, svc.privyAppID, svc.privyAppSecret, svc.authRequestKey)
      [] op = "createWallet" ->
           createWallet([chain_type |-> args.chain_type, policy_ids |-> args.policy_ids],
                        svc.privyAppID, svc.privyAppSecret, svc.authRequestKey)
      [] op = "updateWallet" ->
           updateWallet(args.walletId, [policy_ids |-> args.policy_ids],
                        svc.privyAppID, svc.privyAppSecret, svc.authRequestKey)
      [] op = "getWallets" ->
           getWallets(svc.privyAppID, svc.privyAppSecret, svc.authRequestKey)
      [] op = "sendTransaction" ->
           sendTransaction([wallet_id |-> args.walletId, to |-> args.to,
                            value |-> args.value, data |-> args.data],
                           svc.privyAppID, svc.privyAppSecret, svc.authRequestKey)
      [] op = "signTransaction" ->
           signTransaction(args.walletId, args.message,
                           svc.privyAppID, svc.privyAppSecret, svc.authRequestKey)

\* the operation after a response read as data: the next request (updatePolicy, after
\* its read) or the data handed back
ClientResume(op, phase, svc, args, data) ==
    IF op = "updatePolicy" /\ phase = "read"
    THEN updatePolicyWrite(data, args.policyId, args.tokenName, args.tokenAddress,
                           args.remove, svc.privyAppID, svc.privyAppSecret)
    ELSE Value(data)

\* how the promise of a client operation settles
NotSettled == [kind |-> "none"]
Resolved(data) == [kind |-> "resolved", data |-> data]
Rejected(error) == [kind |-> "rejected", error |-> error]

\* catch (error) { console.error(...); throw error; } around every operation
Settle(step) == IF step.kind = "throw" THEN Rejected(step.error) ELSE Resolved(step.value)

ClientIdle ==
    [pc |-> "idle", op |-> "", svc |-> Service("", "", "", Absent), args |-> NoArgs,
     phase |-> "", sent |-> <<>>, answer |-> NoAnswer, data |-> NoData,
     settled |-> NotSettled]

\* a client operation is called and runs to its first fetch, or throws before it
Call(op, svc, args) ==
    LET step == ClientStart(op, svc, args)
    IN  /\ client.pc \in {"idle", "done"}
        /\ client' =
              IF step.kind = "fetch"
              THEN [ClientIdle EXCEPT !.pc = "awaiting", !.op = op, !.svc = svc,
                                      !.args = args,
                                      !.phase = IF op = "updatePolicy" THEN "read" ELSE "call",
                                      !.sent = <<step.request>>]
              ELSE [ClientIdle EXCEPT !.pc = "done", !.op = op, !.svc = svc, !.args = args,
                                      !.settled = Settle(step)]
        /\ UNCHANGED <<settings, config, remotePolicy, proc>>
        /\ UNCHANGED editorVars

\* the remote service, or the transport, answers the client's request in flight
Answer(response, wallets) ==
    LET req == client.sent[Len(client.sent)]
        served == response.kind = "http" /\ response.ok
    IN  /\ client.pc = "awaiting"
        /\ served => CanServe(req, remotePolicy)
        /\ (served /\ req.method = "GET" /\ req.url = WALLETS_URL) \/ wallets = <<>>
        /\ remotePolicy' = IF served THEN RemoteAfter(req, remotePolicy) ELSE remotePolicy
        /\ client' = [client EXCEPT !.pc = "answered", !.answer = response,
                                    !.data = IF served /\ response.json
                                             THEN Json(RemoteData(req, remotePolicy, wallets))
                                             ELSE NoData]
        /\ UNCHANGED <<settings, config, proc>>
        /\ UNCHANGED editorVars

\* the operation runs on from its await of fetch: a rejected fetch lands in its catch
\* block; on a response it tests response.ok and calls response.json(), which it awaits
ClientRead ==
    /\ client.pc = "answered"
    /\ client' = [client EXCEPT !.pc = IF client.answer.kind = "http" THEN "reading"
                                       ELSE "read"]
    /\ UNCHANGED <<settings, config, remotePolicy, proc>>
    /\ UNCHANGED editorVars

\* the body of the response has been read: response.json() resolves or rejects
ClientBodyRead ==
    /\ client.pc = "reading"
    /\ client' = [client EXCEPT !.pc = "read"]
    /\ UNCHANGED <<settings, config, remotePolicy, proc>>
    /\ UNCHANGED editorVars

\* the operation that read the response runs on from its await of response.json() (or in
\* its catch block): it returns the data or throws, and its promise settles; for getPolicy
\* called by updatePolicy that promise is the one updatePolicy awaits
Receive ==
    LET read == ReadResponse(client.answer, client.data.val)
        step == IF read.kind = "throw" THEN read
                ELSE ClientResume(client.op, client.phase, client.svc, client.args, read.value)
    IN  /\ client.pc = "read"
        /\ client' =
              IF client.op = "updatePolicy" /\ client.phase = "read"
              THEN [client EXCEPT !.pc = "resolved"]
              ELSE [client EXCEPT !.pc = "done", !.phase = "", !.settled = Settle(step)]
        /\ UNCHANGED <<settings, config, remotePolicy, proc>>
        /\ UNCHANGED editorVars

\* updatePolicy runs on from its await of getPolicy: with the policy read it runs the editor
\* and issues its PATCH; when getPolicy threw, its catch block throws the error on and its
\* promise settles
ClientWrite ==
    LET read == ReadResponse(client.answer, client.data.val)
        step == IF read.kind = "throw" THEN read
                ELSE ClientResume(client.op, client.phase, client.svc, client.args, read.value)
    IN  /\ client.pc = "resolved"
        /\ client' =
              IF step.kind = "fetch"
              THEN [client EXCEPT !.pc = "awaiting", !.phase = "write",
                                  !.sent = Append(@, step.request)]
              ELSE [client EXCEPT !.pc = "done", !.phase = "", !.settled = Settle(step)]
        /\ UNCHANGED <<settings, config, remotePolicy, proc>>
        /\ UNCHANGED editorVars

\* the editor's variables where the editor is not looked at
EditorAtRest ==
    /\ heap = <<>>
    /\ existingPolicy = PolicyObject("DefaultPolicy", TRUE, <<>>)
    /\ updatedPolicy = CopyEditable(existingPolicy)
    /\ original = PolicyValue(heap, existingPolicy)
    /\ call = [op |-> "none", tokenName |-> "", tokenAddress |-> "", pre |-> original]
    /\ prevCall = [op |-> "none", tokenName |-> "", tokenAddress |-> ""]

\* the plugin is constructed; no policy has been created at the remote service
Init ==
    /\ settings \in SettingsStates
    /\ config \in PluginConfigs
    /\ remotePolicy = NoPolicy
    /\ proc = [p \in {1} |-> Idle]
    /\ client = ClientIdle
    /\ EditorAtRest

Next ==
    \/ \E p \in DOMAIN proc, action \in Actions :
          \E options \in OptionsOf(action) : Invoke(p, action, options)
    \/ \E p \in DOMAIN proc :
          /\ proc[p].pc = "validating"
          /\ \E options \in OptionsOf(proc[p].action) : ChangeOptions(p, options)
    \/ \E p \in DOMAIN proc : Start(p)
    \/ \E p \in DOMAIN proc, response \in Failures \cup {HttpOk, HttpOkNotJson},
          wallets \in WalletLists : Respond(p, response, wallets)
    \/ \E p \in DOMAIN proc : Read(p)
    \/ \E p \in DOMAIN proc : BodyRead(p)
    \/ \E p \in DOMAIN proc : Resume(p)
    \/ \E p \in DOMAIN proc : Write(p)
    \/ \E p \in DOMAIN proc : Complete(p)
    \/ \E store \in SettingsStates : ChangeSettings(store)

Spec == Init /\ [][Next]_vars

\* the clients used directly: no handler runs
InitClient ==
    /\ settings = Store(Str("app-1"), Str("s3cret"), Absent, Absent)
    /\ config = DEFAULT_CONFIG
    /\ remotePolicy = NoPolicy
    /\ proc = [p \in {1} |-> Idle]
    /\ client = ClientIdle
    /\ EditorAtRest

NextClient ==
    \/ \E op \in ClientOps, svc \in Services : \E args \in ArgsOf(op) : Call(op, svc, args)
    \/ \E response \in Failures \cup {HttpOk, HttpOkNotJson}, wallets \in WalletLists :
          Answer(response, wallets)
    \/ ClientRead
    \/ ClientBodyRead
    \/ Receive
    \/ ClientWrite

SpecClient == InitClient /\ [][NextClient]_vars

\* the policy "pol-1" as the remote service holds it when two updates are invoked
ExistingPolicies ==
    { [exists |-> TRUE,
       value |-> [id |-> "pol-1", version |-> "1.0", name |-> "DefaultPolicy",
                  chain_type |-> "ethereum",
                  method_rules |-> <<[method |-> "eth_sendTransaction", rules |-> rs]>>,
                  default_action |-> "DENY"]] :
        rs \in { <<>>, <<newRule("USDC", "0xCCC")>> } }

\* two invocations of PRIVY_UPDATE_POLICY on one plugin instance, on the same policy
InitConcurrent ==
    /\ settings = Store(Str("app-1"), Str("s3cret"), Absent, Absent)
    /\ config = [DEFAULT_CONFIG EXCEPT !.defaultPolicyId = Str("pol-1")]
    /\ remotePolicy \in ExistingPolicies
    /\ proc = [p \in {1, 2} |-> Idle]
    /\ client = ClientIdle
    /\ EditorAtRest

\* the option bags of the two updates: adds of two tokens, and a remove
ConcurrentOptions ==
    { [NoOptions EXCEPT !.tokenName = Str("USDT"), !.tokenAddress = Str("0xAAA")],
      [NoOptions EXCEPT !.tokenName = Str("USDC"), !.tokenAddress = Str("0xBBB")],
      [NoOptions EXCEPT !.tokenName = Str("USDC"), !.tokenAddress = Str("0xCCC"),
                        !.remove = TRUE] }

\* each of the two handlers is invoked once; the awaits of the two interleave freely
NextConcurrent ==
    \/ \E p \in DOMAIN proc : \E options \in ConcurrentOptions :
          proc[p].pc = "idle" /\ Invoke(p, "PRIVY_UPDATE_POLICY", options)
    \/ \E p \in DOMAIN proc, response \in {HttpOk, NetworkFailure} :
          Respond(p, response, <<>>)
    \/ \E p \in DOMAIN proc : Start(p)
    \/ \E p \in DOMAIN proc : Read(p)
    \/ \E p \in DOMAIN proc : BodyRead(p)
    \/ \E p \in DOMAIN proc : Resume(p)
    \/ \E p \in DOMAIN proc : Write(p)
    \/ \E p \in DOMAIN proc : Complete(p)

SpecConcurrent == InitConcurrent /\ [][NextConcurrent]_vars

\* the handlers that work on a policy, and the option bags they are invoked with: a
\* policy is created under a name, tokens are added and removed, the policy is read
PolicyActions == {"PRIVY_CREATE_POLICY", "PRIVY_UPDATE_POLICY", "PRIVY_GET_POLICY"}

PolicyOptions(action) ==
    CASE action = "PRIVY_CREATE_POLICY" ->
           { NoOptions, [NoOptions EXCEPT !.name = Str("Treasury")] }
      [] action = "PRIVY_UPDATE_POLICY" ->
           { [NoOptions EXCEPT !.tokenName = Str(t[1]), !.tokenAddress = Str(t[2]),
                               !.remove = r] :
                t \in { <<"USDT", "0xAAA">>, <<"USDC", "0xBBB">> }, r \in BOOLEAN }
      [] action = "PRIVY_GET_POLICY" -> { NoOptions }

\* one plugin instance whose default policy id is the id the remote service gives the
\* first policy created; its handlers are invoked one after the other
InitPolicy ==
    /\ settings = Store(Str("app-1"), Str("s3cret"), Absent, Absent)
    /\ config = [DEFAULT_CONFIG EXCEPT !.defaultPolicyId = Str("pol-1")]
    /\ remotePolicy = NoPolicy
    /\ proc = [p \in {1} |-> Idle]
    /\ client = ClientIdle
    /\ EditorAtRest

NextPolicy ==
    \/ \E p \in DOMAIN proc, action \in PolicyActions :
          \E options \in PolicyOptions(action) : Invoke(p, action, options)
    \/ \E p \in DOMAIN proc,
          response \in {HttpOk, HttpOkNotJson} \cup Failures :
          Respond(p, response, <<>>)
    \/ \E p \in DOMAIN proc : Start(p)
    \/ \E p \in DOMAIN proc : Read(p)
    \/ \E p \in DOMAIN proc : BodyRead(p)
    \/ \E p \in DOMAIN proc : Resume(p)
    \/ \E p \in DOMAIN proc : Write(p)
    \/ \E p \in DOMAIN proc : Complete(p)

SpecPolicy == InitPolicy /\ [][NextPolicy]_vars

----------------------------------------------------------------------------
(* Wallet creation: the create-wallet handler invoked with chain types in any spelling *)

ChainTypes ==
    { "", "ethereum", "Ethereum", "ETHEREUM", "solana", "Solana", "SOLANA", "monad", "Monad",
      "MONAD", "bitcoin", "Bitcoin", "eth", "ethereum ", "solana2", "Monad-1" }

WalletOptions ==
    { [NoOptions EXCEPT !.chainType = c, !.policyId = pid] :
         c \in {Absent} \cup { Str(t) : t \in ChainTypes }, pid \in {Absent, Str("pol-1")} }

InitWallet ==
    /\ settings = Store(Str("app-1"), Str("s3cret"), Absent, Absent)
    /\ config = DEFAULT_CONFIG
    /\ remotePolicy = NoPolicy
    /\ proc = [p \in {1} |-> Idle]
    /\ client = ClientIdle
    /\ EditorAtRest

NextWallet ==
    \/ \E p \in DOMAIN proc, options \in WalletOptions :
          Invoke(p, "PRIVY_CREATE_WALLET", options)
    \/ \E p \in DOMAIN proc, response \in {HttpOk} \cup Failures :
          Respond(p, response, <<>>)
    \/ \E p \in DOMAIN proc : Start(p)
    \/ \E p \in DOMAIN proc : Read(p)
    \/ \E p \in DOMAIN proc : BodyRead(p)
    \/ \E p \in DOMAIN proc : Resume(p)
    \/ \E p \in DOMAIN proc : Complete(p)

SpecWallet == InitWallet /\ [][NextWallet]_vars

----------------------------------------------------------------------------
(* Listing: tokens are added to a policy of one or two MethodRules and the policy is read *)

\* token names, among them names that hold the words the handler takes out of a rule name
ListedNames == {"USDT", "Allowlist DAI", "My Allowlist 2"}

\* the policy "pol-1" as the remote service holds it at the start
ListedPolicies ==
    { [exists |-> TRUE,
       value |-> [id |-> "pol-1", version |-> "1.0", name |-> "DefaultPolicy",
                  chain_type |-> "ethereum", method_rules |-> mrs,
                  default_action |-> "DENY"]] :
        mrs \in { <<MethodRule("eth_sendTransaction", <<>>)>>,
                  <<MethodRule("eth_sendTransaction", <<newRule("USDC", "0xBBB")>>),
                    MethodRule("eth_signTransaction", <<newRule("WETH", "0xCCC")>>)>>,
                  <<MethodRule("eth_signTransaction", <<>>),
                    MethodRule("eth_sendTransaction",
                               <<newRule("WETH", "0xCCC"), newRule("USDC", "0xBBB")>>)>> } }

ListingOptions(action) ==
    IF action = "PRIVY_UPDATE_POLICY"
    THEN { [NoOptions EXCEPT !.tokenName = Str(n), !.tokenAddress = Str("0xAAA")] :
              n \in ListedNames }
    ELSE { NoOptions }

InitListing ==
    /\ settings = Store(Str("app-1"), Str("s3cret"), Absent, Absent)
    /\ config = [DEFAULT_CONFIG EXCEPT !.defaultPolicyId = Str("pol-1")]
    /\ remotePolicy \in ListedPolicies
    /\ proc = [p \in {1} |-> Idle]
    /\ client = ClientIdle
    /\ EditorAtRest

NextListing ==
    \/ \E p \in DOMAIN proc, action \in {"PRIVY_UPDATE_POLICY", "PRIVY_GET_POLICY"} :
          \E options \in ListingOptions(action) : Invoke(p, action, options)
    \/ \E p \in DOMAIN proc, response \in {HttpOk, NetworkFailure} :
          Respond(p, response, <<>>)
    \/ \E p \in DOMAIN proc : Start(p)
    \/ \E p \in DOMAIN proc : Read(p)
    \/ \E p \in DOMAIN proc : BodyRead(p)
    \/ \E p \in DOMAIN proc : Resume(p)
    \/ \E p \in DOMAIN proc : Write(p)
    \/ \E p \in DOMAIN proc : Complete(p)

SpecListing == InitListing /\ [][NextListing]_vars

----------------------------------------------------------------------------
(* The editor applied to a policy object, call after call *)

NoCall(v) == [op |-> "none", tokenName |-> "", tokenAddress |-> "", pre |-> v]

\* what is remembered of the call before the last one: its operation and arguments
Brief(c) == [op |-> c.op, tokenName |-> c.tokenName, tokenAddress |-> c.tokenAddress]

InitEditor ==
    \E n \in PolicyNames, present \in BOOLEAN, mrs \in InitMethodRules :
        /\ (~present => mrs = <<>>)
        /\ heap = mrs
        /\ existingPolicy = PolicyObject(n, present, mrs)
        /\ updatedPolicy = CopyEditable(existingPolicy)
        /\ original = PolicyValue(heap, existingPolicy)
        /\ call = NoCall(original)
        /\ prevCall = Brief(NoCall(original))
        /\ settings = Store(Str("app-1"), Str("s3cret"), Absent, Absent)
        /\ config = DEFAULT_CONFIG
        /\ remotePolicy = NoPolicy
        /\ proc = [p \in {1} |-> Idle]
        /\ client = ClientIdle

Allowlist(tokenName, tokenAddress) ==
    LET r == allowlistToken(heap, existingPolicy, tokenName, tokenAddress)
    IN  /\ Len(heap) >= 1 => Len(heap[1].rules) < MaxRules
        /\ heap' = r.heap
        /\ updatedPolicy' = r.ret
        /\ call' = [op |-> "add", tokenName |-> tokenName, tokenAddress |-> tokenAddress,
                    pre |-> PolicyValue(heap, existingPolicy)]
        /\ prevCall' = Brief(call)
        /\ UNCHANGED <<existingPolicy, original>>
        /\ UNCHANGED handlerVars

Denylist(tokenName, tokenAddress) ==
    LET r == denylistToken(heap, existingPolicy, tokenName, tokenAddress)
    IN  /\ heap' = r.heap
        /\ updatedPolicy' = r.ret
        /\ call' = [op |-> "remove", tokenName |-> tokenName, tokenAddress |-> tokenAddress,
                    pre |-> PolicyValue(heap, existingPolicy)]
        /\ prevCall' = Brief(call)
        /\ UNCHANGED <<existingPolicy, original>>
        /\ UNCHANGED handlerVars

NextEditor ==
    \/ \E n \in TokenNames, a \in TokenAddresses : Allowlist(n, a)
    \/ \E n \in TokenNames, a \in TokenAddresses : Denylist(n, a)

SpecEditor == InitEditor /\ [][NextEditor]_vars

----------------------------------------------------------------------------
(* Properties of the policy rule editor, under SpecEditor *)

\* the value of the object the last call returned
EditorResult == UpdateValue(heap, updatedPolicy)

\* the policy value before the last call had at least one MethodRule
HadMethodRule == Len(call.pre.method_rules) >= 1

\* a rule has a condition on ethereum_transaction "to" whose value is the string a
MatchesAddress(rule, a) ==
    /\ rule.has_conditions
    /\ \E i \in DOMAIN rule.conditions :
          /\ rule.conditions[i].field_source = "ethereum_transaction"
          /\ rule.conditions[i].field = "to"
          /\ rule.conditions[i].value = [type |-> "string", val |-> a]

\* the rule an add of (n, a) is to create
AllowRule(n, a) ==
    [name |-> "Allowlist " \o n,
     has_conditions |-> TRUE,
     conditions |-> <<[field_source |-> "ethereum_transaction", field |-> "to",
                       operator |-> "eq", value |-> [type |-> "string", val |-> a]]>>,
     action |-> "ALLOW"]

\* the rules of rs that do not match address a, in their order
RECURSIVE Without(_, _)
Without(rs, a) ==
    IF rs = <<>> THEN <<>>
    ELSE IF MatchesAddress(Head(rs), a) THEN Without(Tail(rs), a)
         ELSE <<Head(rs)>> \o Without(Tail(rs), a)

\* C1: after an add on a policy with at least one MethodRule, the result has exactly the
\* fields name and method_rules, and its first MethodRule's rule list is the rule list
\* from before the call followed by the one rule "Allowlist " + tokenName with the single
\* condition (ethereum_transaction, to, eq, tokenAddress) and action ALLOW.
C1_AllowlistAppends ==
    (call.op = "add" /\ HadMethodRule) =>
        /\ DOMAIN EditorResult = {"name", "method_rules"}
        /\ EditorResult.name = call.pre.name
        /\ Len(EditorResult.method_rules) >= 1
        /\ EditorResult.method_rules[1].rules =
              call.pre.method_rules[1].rules \o <<AllowRule(call.tokenName, call.tokenAddress)>>

C1_Witness ==
    /\ call.op = "add"
    /\ HadMethodRule
    /\ Len(call.pre.method_rules[1].rules) >= 1
    /\ Len(EditorResult.method_rules[1].rules) = Len(call.pre.method_rules[1].rules) + 1

\* C2: after a remove on a policy with at least one MethodRule, the result's first rule
\* list is the rule list from before the call without the rules that have a condition
\* matching the address, the kept rules in their original order.
C2_DenylistFilters ==
    (call.op = "remove" /\ HadMethodRule) =>
        /\ Len(EditorResult.method_rules) >= 1
        /\ EditorResult.method_rules[1].rules = Without(call.pre.method_rules[1].rules, call.tokenAddress)

C2_Witness ==
    /\ call.op = "remove"
    /\ HadMethodRule
    /\ Len(EditorResult.method_rules[1].rules) >= 1
    /\ Len(EditorResult.method_rules[1].rules) < Len(call.pre.method_rules[1].rules)

\* C3: the policy handed to add or remove has the same value after the call as before it.
C3_EditorIsPure ==
    call.op # "none" => PolicyValue(heap, existingPolicy) = call.pre

\* C4: an add changes the rule count of the first MethodRule by exactly one, and after
\* two successive adds of the same token the last two rules of the list are two entries
\* for that token with the same condition.
C4_AddNeverDeduplicates ==
    (call.op = "add" /\ HadMethodRule) =>
        LET rules == EditorResult.method_rules[1].rules
            n == Len(rules)
        IN  /\ n = Len(call.pre.method_rules[1].rules) + 1
            /\ (prevCall = Brief(call)) =>
                  /\ n >= 2
                  /\ rules[n] = AllowRule(call.tokenName, call.tokenAddress)
                  /\ rules[n - 1] = AllowRule(call.tokenName, call.tokenAddress)

C4_Witness ==
    /\ call.op = "add"
    /\ prevCall = Brief(call)
    /\ HadMethodRule
    /\ Len(EditorResult.method_rules[1].rules) >= 2

\* the value denylistToken returns for a policy value, token name and address
DenylistOf(v, n, a) ==
    LET h == v.method_rules
        r == denylistToken(h, PolicyObject(v.name, v.has_method_rules, h), n, a)
    IN  UpdateValue(r.heap, r.ret)

\* C5: the result of a remove is the result of the remove of the same address under any
\* other token name, and it holds no rule matching the address, whatever the rule's name.
C5_RemoveIgnoresNames ==
    call.op = "remove" =>
        /\ \A n \in TokenNames \cup {"", "Treasury"} :
              DenylistOf(call.pre, n, call.tokenAddress) = EditorResult
        /\ HadMethodRule =>
              \A i \in DOMAIN EditorResult.method_rules[1].rules :
                 ~MatchesAddress(EditorResult.method_rules[1].rules[i], call.tokenAddress)

\* a remove under one token name has dropped a rule named after something else
C5_Witness ==
    /\ call.op = "remove"
    /\ HadMethodRule
    /\ \E i \in DOMAIN call.pre.method_rules[1].rules :
          /\ MatchesAddress(call.pre.method_rules[1].rules[i], call.tokenAddress)
          /\ call.pre.method_rules[1].rules[i].name # "Allowlist " \o call.tokenName

\* no rule of the first MethodRule matched the address before the last call
NoneMatched ==
    \A i \in DOMAIN call.pre.method_rules[1].rules :
        ~MatchesAddress(call.pre.method_rules[1].rules[i], call.tokenAddress)

\* C6: a remove of an address that no rule of the first MethodRule matches returns the
\* MethodRules as they were: the same rules in the same order.
C6_RemoveAbsentIsNoOp ==
    (call.op = "remove" /\ HadMethodRule /\ NoneMatched) =>
        /\ EditorResult.method_rules = call.pre.method_rules
        /\ EditorResult.name = call.pre.name

C6_Witness ==
    /\ call.op = "remove"
    /\ HadMethodRule
    /\ NoneMatched
    /\ Len(call.pre.method_rules[1].rules) >= 2

\* C7: on a policy with no MethodRule (method_rules absent or empty), add and remove
\* return the name with an empty method_rules list and create no MethodRule.
C7_NoMethodRuleIsNoOp ==
    (call.op # "none" /\ ~HadMethodRule) =>
        /\ EditorResult = [name |-> call.pre.name, method_rules |-> <<>>]
        /\ heap = <<>>

C7_Witness ==
    /\ call.op = "add"
    /\ prevCall.op = "remove"
    /\ ~HadMethodRule
    /\ ~call.pre.has_method_rules

\* the policy of the example: one eth_sendTransaction MethodRule holding "Allowlist USDT"
ExampleMethodRules ==
    <<[method |-> "eth_sendTransaction", rules |-> <<AllowRule("USDT", "0xAAA")>>]>>

\* C8: for the example policy, add("USDC", "0xBBB") yields a rule list of length 2 whose
\* second entry is "Allowlist USDC" on "0xBBB", and remove("USDT", "0xAAA") applied to the
\* original policy, first or after that add, yields an empty rule list.
C8_Example ==
    (original.has_method_rules /\ original.method_rules = ExampleMethodRules) =>
        /\ (prevCall.op = "none" /\ call = [op |-> "add", tokenName |-> "USDC",
                                            tokenAddress |-> "0xBBB", pre |-> original]) =>
              /\ Len(EditorResult.method_rules[1].rules) = 2
              /\ EditorResult.method_rules[1].rules[2].name = "Allowlist USDC"
              /\ EditorResult.method_rules[1].rules[2].conditions[1].value.val = "0xBBB"
        /\ (/\ call.op = "remove" /\ call.tokenName = "USDT" /\ call.tokenAddress = "0xAAA"
            /\ \/ prevCall.op = "none"
               \/ prevCall = [op |-> "add", tokenName |-> "USDC", tokenAddress |-> "0xBBB"]) =>
              EditorResult.method_rules[1].rules = <<>>

\* C20: add and remove leave the number and order of the MethodRules, the method of
\* every MethodRule and every MethodRule at index 1 or higher (counted from 0) as they
\* were in the input policy, in the result and in the input object; an add changes the
\* rule list at index 0 whichever method that MethodRule has.
C20_OnlyFirstRuleList ==
    call.op # "none" =>
        LET before == call.pre.method_rules
            after == EditorResult.method_rules
            input == PolicyValue(heap, existingPolicy).method_rules
        IN  /\ Len(after) = Len(before)
            /\ Len(input) = Len(before)
            /\ \A i \in DOMAIN before :
                  /\ after[i].method = before[i].method
                  /\ i >= 2 => (after[i] = before[i] /\ input[i] = before[i])
            /\ (call.op = "add" /\ HadMethodRule) =>
                  Len(after[1].rules) = Len(before[1].rules) + 1

\* an add on a policy whose first MethodRule is for eth_signTransaction and whose second
\* is for eth_sendTransaction has lengthened the first one's rule list
C20_Witness ==
    /\ call.op = "add"
    /\ Len(call.pre.method_rules) = 2
    /\ call.pre.method_rules[1].method = "eth_signTransaction"
    /\ call.pre.method_rules[2].method = "eth_sendTransaction"
    /\ Len(EditorResult.method_rules[1].rules) = Len(call.pre.method_rules[1].rules) + 1
    /\ EditorResult.method_rules[2] = call.pre.method_rules[2]

\* the result of allowlistToken(n, a) on a policy value v
AllowlistOf(v, n, a) ==
    LET h == v.method_rules
        r == allowlistToken(h, PolicyObject(v.name, v.has_method_rules, h), n, a)
    IN  UpdateValue(r.heap, r.ret)

\* an update object read as a policy
AsPolicy(u) == [name |-> u.name, has_method_rules |-> TRUE, method_rules |-> u.method_rules]

\* the policy value the editor is applied to next
CurrentPolicy == PolicyValue(heap, existingPolicy)

\* C25: for the policy at hand, if it has a MethodRule, and every two token names and every
\* address: a remove of the address applied to the result of an add of that address gives
\* the MethodRules a remove applied to the policy itself gives, their first rule list
\* holds no rule matching the address, and a second remove changes nothing. A remove that
\* follows an add of the same address on the same policy object gives that result too.
C25_RemoveCancelsAdd ==
    /\ Len(CurrentPolicy.method_rules) >= 1 =>
          \A n1 \in TokenNames, n2 \in TokenNames, a \in TokenAddresses :
              LET added == AllowlistOf(CurrentPolicy, n1, a)
                  both == DenylistOf(AsPolicy(added), n2, a)
                  direct == DenylistOf(CurrentPolicy, n2, a)
              IN  /\ Len(added.method_rules[1].rules) =
                         Len(CurrentPolicy.method_rules[1].rules) + 1
                  /\ both.method_rules = direct.method_rules
                  /\ \A i \in DOMAIN both.method_rules[1].rules :
                         ~MatchesAddress(both.method_rules[1].rules[i], a)
                  /\ DenylistOf(AsPolicy(direct), n2, a).method_rules = direct.method_rules
    /\ (call.op = "remove" /\ prevCall.op = "add" /\ HadMethodRule
            /\ prevCall.tokenAddress = call.tokenAddress) =>
          LET rules == call.pre.method_rules[1].rules
              before == [call.pre EXCEPT
                            !.method_rules[1].rules = SubSeq(rules, 1, Len(rules) - 1)]
          IN  EditorResult.method_rules =
                  DenylistOf(before, call.tokenName, call.tokenAddress).method_rules

\* a remove under one name has followed an add under another name of the same address, on
\* a policy that held a rule for the address before the add
C25_Witness ==
    /\ call.op = "remove"
    /\ prevCall.op = "add"
    /\ HadMethodRule
    /\ prevCall.tokenAddress = call.tokenAddress
    /\ prevCall.tokenName # call.tokenName
    /\ Len(call.pre.method_rules[1].rules) >= 2
    /\ MatchesAddress(call.pre.method_rules[1].rules[1], call.tokenAddress)
    /\ Len(EditorResult.method_rules[1].rules) = Len(call.pre.method_rules[1].rules) - 2

\* two strings are the same but for the case of their letters
SameIgnoringCase(a, b) ==
    /\ Len(a) = Len(b)
    /\ \A i \in 1..Len(a) :
          \/ SubSeq(a, i, i) = SubSeq(b, i, i)
          \/ \E k \in 1..Len(UpperCaseLetters) :
                {SubSeq(a, i, i), SubSeq(b, i, i)} =
                    {SubSeq(UpperCaseLetters, k, k), SubSeq(LowerCaseLetters, k, k)}

\* a rule that matches address a though it denies, compares with another operator than eq,
\* or has further conditions
MatchesUnlikeAllowRule(rule, a) ==
    /\ MatchesAddress(rule, a)
    /\ \/ rule.action = "DENY"
       \/ Len(rule.conditions) > 1
       \/ \E i \in DOMAIN rule.conditions : rule.conditions[i].operator # "eq"

\* a rule that does not match address a but has a condition on ethereum_transaction "to"
\* whose value is a in another letter case, or a list that holds a
NearMiss(rule, a) ==
    /\ ~MatchesAddress(rule, a)
    /\ rule.has_conditions
    /\ \E i \in DOMAIN rule.conditions :
          /\ rule.conditions[i].field_source = "ethereum_transaction"
          /\ rule.conditions[i].field = "to"
          /\ \/ /\ rule.conditions[i].value.type = "string"
                /\ SameIgnoringCase(rule.conditions[i].value.val, a)
             \/ /\ rule.conditions[i].value.type = "array"
                /\ \E k \in DOMAIN rule.conditions[i].value.val :
                      rule.conditions[i].value.val[k] = a

\* how often a rule occurs in a rule list
Occurrences(rules, rule) == Cardinality({ i \in DOMAIN rules : rules[i] = rule })

\* C26: a remove drops, from the first rule list, every rule that matches the address, also
\* one that denies, compares with an operator other than eq or has further conditions,
\* and keeps every rule whose "to" value is the address in another letter case or a list
\* holding the address.
C26_RemoveMatchesValueOnly ==
    (call.op = "remove" /\ HadMethodRule) =>
        LET pre == call.pre.method_rules[1].rules
            post == EditorResult.method_rules[1].rules
        IN  \A i \in DOMAIN pre :
                /\ MatchesUnlikeAllowRule(pre[i], call.tokenAddress) =>
                      Occurrences(post, pre[i]) = 0
                /\ NearMiss(pre[i], call.tokenAddress) =>
                      Occurrences(post, pre[i]) = Occurrences(pre, pre[i])

\* a remove has dropped a DENY rule with a neq condition on the address and kept a rule
\* with the address in lower case and in a list
C26_Witness ==
    /\ call.op = "remove"
    /\ HadMethodRule
    /\ Len(call.pre.method_rules[1].rules) = 2
    /\ MatchesUnlikeAllowRule(call.pre.method_rules[1].rules[1], call.tokenAddress)
    /\ call.pre.method_rules[1].rules[1].action = "DENY"
    /\ NearMiss(call.pre.method_rules[1].rules[2], call.tokenAddress)
    /\ EditorResult.method_rules[1].rules = <<call.pre.method_rules[1].rules[2]>>

----------------------------------------------------------------------------
(* Properties of the handlers, under Spec *)

\* a required setting is absent or empty in the settings store
MissingRequired(store) ==
    \/ ~store.PRIVY_APP_ID.defined \/ store.PRIVY_APP_ID.val = ""
    \/ ~store.PRIVY_APP_SECRET.defined \/ store.PRIVY_APP_SECRET.val = ""

\* the step starts an invocation of p's handler
Invoked(p) == proc[p].pc \in {"idle", "done"} /\ proc'[p] # proc[p]

\* the invocation of p has ended with the handler returning a failure result with a message
ReturnedFailure(me) ==
    /\ me.pc = "done"
    /\ me.completion.kind = "returned"
    /\ me.completion.result.success = FALSE
    /\ Len(me.completion.result.response) > 0

\* the handler of p has read the options: it is past its await of validatePrivyConfig
Started(me) == me.pc \notin {"idle", "validating"}

\* the step is the handler of p running on from its await of validatePrivyConfig
Starts(p) == proc[p].pc = "validating" /\ proc'[p].pc # "validating"

\* C9: while PRIVY_APP_ID or PRIVY_APP_SECRET is absent or empty, validatePrivyConfig
\* throws; a handler invoked then holds that error, sends no request, and ends with a
\* failure result as soon as it runs on, whatever the settings have become.
C9_ConfigErrorNoRequest ==
    /\ [](MissingRequired(settings) => validatePrivyConfig(settings).kind = "throw")
    /\ [](\A p \in DOMAIN proc :
             proc[p].cfg.kind = "throw" =>
                 /\ proc[p].sent = <<>>
                 /\ proc[p].pc \in {"validating", "done"}
                 /\ proc[p].pc = "done" => ReturnedFailure(proc[p]))
    /\ [][\A p \in DOMAIN proc :
             /\ (MissingRequired(settings) /\ Invoked(p)) => proc'[p].cfg.kind = "throw"
             /\ (Starts(p) /\ proc[p].cfg.kind = "throw") =>
                   /\ ReturnedFailure(proc'[p])
                   /\ proc'[p].sent = <<>>]_vars

\* a handler invoked with the App ID set and the App Secret missing has reported that
C9_Witness ==
    /\ Truthy(settings.PRIVY_APP_ID)
    /\ ~Truthy(settings.PRIVY_APP_SECRET)
    /\ proc[1].action = "PRIVY_SEND_TRANSACTION"
    /\ Truthy(proc[1].options.walletId)
    /\ proc[1].pc = "done"
    /\ proc[1].sent = <<>>
    /\ proc[1].completion.kind = "returned"
    /\ proc[1].completion.result =
          [success |-> FALSE,
           response |-> "Error sending transaction: Privy App Secret is required",
           data |-> [kind |-> "none"]]

\* the last response the invocation received was a failure: the transport failed, the
\* status was not a success, or the body was not JSON
AnswerFailed(me) ==
    /\ me.answer.kind # "none"
    /\ \/ me.answer.kind = "network"
       \/ ~me.answer.ok
       \/ ~me.answer.json

\* C10: no invocation ends with an error leaving the handler; an invocation that has
\* ended has returned a result; one that ended on a failed response, or ended without
\* sending a request (configuration error, missing or invalid option), has returned
\* success = false with a response message.
C10_NoErrorEscapes ==
    /\ [](\A p \in DOMAIN proc :
             /\ proc[p].completion.kind # "thrown"
             /\ proc[p].pc = "done" => proc[p].completion.kind = "returned"
             /\ (proc[p].pc = "done" /\ AnswerFailed(proc[p])) => ReturnedFailure(proc[p])
             /\ (proc[p].pc = "done" /\ proc[p].sent = <<>>) => ReturnedFailure(proc[p]))
    /\ [][\A p \in DOMAIN proc :
             (Starts(p) /\ proc[p].cfg.kind = "throw") => ReturnedFailure(proc'[p])]_vars

\* a send-transaction invocation has ended on a remote error and returned a failure
C10_Witness ==
    /\ proc[1].pc = "done"
    /\ proc[1].action = "PRIVY_SEND_TRANSACTION"
    /\ proc[1].answer.kind = "http"
    /\ ~proc[1].answer.ok
    /\ proc[1].completion.kind = "returned"
    /\ ~proc[1].completion.result.success

\* an option or a configured default is given: present and not the empty string
Given(x) == x.defined /\ x.val # ""

\* the invocation lacks an option its handler requires
MissingOption(action, pluginConfig, options) ==
    LET noPolicyId == ~Given(options.policyId) /\ ~Given(pluginConfig.defaultPolicyId)
    IN  CASE action = "PRIVY_GET_POLICY" -> noPolicyId
          [] action = "PRIVY_UPDATE_POLICY" ->
               noPolicyId \/ ~Given(options.tokenName) \/ ~Given(options.tokenAddress)
          [] action = "PRIVY_UPDATE_WALLET" -> ~Given(options.walletId)
          [] action = "PRIVY_SEND_TRANSACTION" ->
               ~Given(options.walletId) \/ ~Given(options.to) \/ ~Given(options.value)
          [] action = "PRIVY_SIGN_TRANSACTION" ->
               ~Given(options.walletId) \/ ~Given(options.message)
          [] OTHER -> FALSE

\* C11: an invocation whose handler found a required option missing (policy id for get/update policy,
\* token name or address for update policy, wallet id for update wallet/send/sign,
\* recipient or value for send, message for sign) has ended with success = false and
\* has sent no request.
C11_MissingOptionNoRequest ==
    \A p \in DOMAIN proc :
        (Started(proc[p]) /\ MissingOption(proc[p].action, config, proc[p].options)) =>
            /\ ReturnedFailure(proc[p])
            /\ proc[p].sent = <<>>

\* under valid settings, a send without a value has been refused by the handler
C11_Witness ==
    /\ ~MissingRequired(settings)
    /\ proc[1].pc = "done"
    /\ proc[1].action = "PRIVY_SEND_TRANSACTION"
    /\ Given(proc[1].options.walletId) /\ Given(proc[1].options.to)
    /\ ~Given(proc[1].options.value)
    /\ proc[1].sent = <<>>
    /\ proc[1].completion.kind = "returned"
    /\ proc[1].completion.result =
          [success |-> FALSE,
           response |-> "Wallet ID, recipient address, and value are required for transactions.",
           data |-> [kind |-> "none"]]

\* the message of the error the client raised on the invocation's last response
RemoteErrorMessage(me) == ReadResponse(me.answer, NoData).error.message

\* the invocation ended on a failed remote call whose error message contains "policy"
\* or "denied"
EndedOnPolicyError(me) ==
    /\ me.pc = "done"
    /\ AnswerFailed(me)
    /\ \/ Includes(RemoteErrorMessage(me), "policy")
       \/ Includes(RemoteErrorMessage(me), "denied")

\* the response text says the operation failed due to policy restrictions
SaysPolicyRestrictions(me) ==
    /\ me.completion.kind = "returned"
    /\ ~me.completion.result.success
    /\ Includes(me.completion.result.response, "failed due to policy restrictions")

\* C13 as stated: for every action handler, an invocation that ended on a remote error
\* whose message contains "policy" or "denied" has returned a failure response saying
\* that the operation failed due to policy restrictions.
C13_EveryHandlerRewrites ==
    \A p \in DOMAIN proc :
        EndedOnPolicyError(proc[p]) => SaysPolicyRestrictions(proc[p])

TransactionActions == {"PRIVY_SEND_TRANSACTION", "PRIVY_SIGN_TRANSACTION"}

\* what each of the other handlers puts before the error message
ErrorPrefix(action) ==
    CASE action = "PRIVY_GET_POLICY" -> "Error retrieving policy: "
      [] action = "PRIVY_CREATE_POLICY" -> "Error creating policy: "
      [] action = "PRIVY_UPDATE_POLICY" -> "Error updating policy: "
      [] action = "PRIVY_CREATE_WALLET" -> "Error creating wallet: "
      [] action = "PRIVY_UPDATE_WALLET" -> "Error updating wallet: "
      [] action = "PRIVY_GET_WALLETS" -> "Error retrieving wallets: "

\* C13 as amended: a send-transaction or sign-transaction invocation that ended on a
\* remote error whose message contains "policy" or "denied" has returned a failure
\* response saying that the operation failed due to policy restrictions and quoting the
\* message; the six other handlers return their usual "Error ...: " text followed by the
\* message, without that wording.
C13_TransactionHandlersRewrite ==
    \A p \in DOMAIN proc :
        EndedOnPolicyError(proc[p]) =>
            IF proc[p].action \in TransactionActions
            THEN /\ SaysPolicyRestrictions(proc[p])
                 /\ Includes(proc[p].completion.result.response, RemoteErrorMessage(proc[p]))
            ELSE /\ proc[p].completion.kind = "returned"
                 /\ proc[p].completion.result =
                       [success |-> FALSE,
                        response |-> ErrorPrefix(proc[p].action) \o RemoteErrorMessage(proc[p]),
                        data |-> [kind |-> "none"]]
                 /\ ~SaysPolicyRestrictions(proc[p])

\* a sign invocation refused by the remote service for a policy reason was reworded
C13_Witness ==
    /\ proc[1].action = "PRIVY_SIGN_TRANSACTION"
    /\ EndedOnPolicyError(proc[1])
    /\ proc[1].answer.message = [defined |-> TRUE, val |-> "Violates policy limits"]
    /\ proc[1].completion.result.response =
          "Signing failed due to policy restrictions: Violates policy limits. This operation may not be allowed by your wallet's compliance policies."

\* C15: an invocation issues each request once: it sends at most one request, or, for a
\* policy update, at most two, the first a GET of the policy and the second a PATCH of
\* the same policy; no request is in flight after a failed response; a policy update
\* that succeeded has sent exactly the GET followed by the PATCH.
C15_SingleShot ==
    \A p \in DOMAIN proc :
        LET me == proc[p]
        IN  /\ Len(me.sent) <= IF me.action = "PRIVY_UPDATE_POLICY" THEN 2 ELSE 1
            /\ me.pc = "awaiting" => ~AnswerFailed(me)
            /\ (me.action = "PRIVY_UPDATE_POLICY" /\ Len(me.sent) >= 1) =>
                  /\ me.sent[1].method = "GET"
                  /\ me.sent[1].body = [kind |-> "none"]
            /\ Len(me.sent) = 2 =>
                  /\ me.sent[2].method = "PATCH"
                  /\ me.sent[2].url = me.sent[1].url
                  /\ me.sent[2].body.kind = "update_policy"
            /\ (/\ me.pc = "done" /\ me.action = "PRIVY_UPDATE_POLICY"
                /\ me.completion.kind = "returned" /\ me.completion.result.success) =>
                  Len(me.sent) = 2

\* a policy update whose read succeeded and whose write failed has ended there
C15_Witness ==
    /\ proc[1].pc = "done"
    /\ proc[1].action = "PRIVY_UPDATE_POLICY"
    /\ Len(proc[1].sent) = 2
    /\ proc[1].sent[1].method = "GET"
    /\ proc[1].sent[2].method = "PATCH"
    /\ AnswerFailed(proc[1])
    /\ ReturnedFailure(proc[1])

\* the name a create-policy invocation supplies: the name option, else the configured
\* default name, else "DefaultPolicy"
SuppliedName(pluginConfig, options) ==
    IF Given(options.name) THEN options.name.val
    ELSE IF Given(pluginConfig.defaultPolicyName) THEN pluginConfig.defaultPolicyName.val
    ELSE "DefaultPolicy"

\* C17: the one request of a create-policy invocation is a POST to the policies
\* resource whose body is version "1.0", the supplied name, chain_type ethereum, one
\* MethodRule for eth_sendTransaction with an empty rule list and default_action DENY,
\* whatever the options; an invocation that sent no request failed on the settings.
C17_CreateTemplate ==
    \A p \in DOMAIN proc :
        (Started(proc[p]) /\ proc[p].action = "PRIVY_CREATE_POLICY") =>
            IF proc[p].sent = <<>>
            THEN proc[p].completion.kind = "returned" /\
                 proc[p].completion.result.response \in
                     { "Error creating policy: Privy App ID is required",
                       "Error creating policy: Privy App Secret is required" }
            ELSE /\ Len(proc[p].sent) = 1
                 /\ proc[p].sent[1].method = "POST"
                 /\ proc[p].sent[1].url = "https://api.privy.io/v1/policies"
                 /\ proc[p].sent[1].body =
                       [kind |-> "create_policy",
                        version |-> "1.0",
                        name |-> SuppliedName(config, proc[p].options),
                        chain_type |-> "ethereum",
                        method_rules |-> <<[method |-> "eth_sendTransaction", rules |-> <<>>]>>,
                        default_action |-> "DENY"]

\* a create-policy invocation given a chain type and a token has sent the template
C17_Witness ==
    /\ proc[1].action = "PRIVY_CREATE_POLICY"
    /\ proc[1].options.chainType = [defined |-> TRUE, val |-> "solana"]
    /\ Given(proc[1].options.tokenName)
    /\ Len(proc[1].sent) = 1
    /\ proc[1].sent[1].body.chain_type = "ethereum"
    /\ proc[1].sent[1].body.method_rules[1].rules = <<>>
    /\ proc[1].sent[1].body.name = "DefaultPolicy"

\* the step is a step of p's invocation: the call, the handler running on after an await,
\* the caller's change of the options, or the answer to its request
HandlerStep(p) == proc'[p] # proc[p]

\* C18: no step of an invocation changes the plugin's configuration or the settings store;
\* an invocation starts with nothing left of the invocation before it and with the
\* configuration the settings store gives at that moment; every request it issues carries
\* the App ID and App Secret read then; it issues a request only if both were set, and
\* fails on the settings only if one was missing.
C18_NoSharedState ==
    /\ [][\A p \in DOMAIN proc :
             /\ HandlerStep(p) => (config' = config /\ settings' = settings)
             /\ Invoked(p) =>
                   /\ proc'[p] = [Idle EXCEPT !.pc = "validating",
                                               !.action = proc'[p].action,
                                               !.options = proc'[p].options,
                                               !.cfg = proc'[p].cfg]
                   /\ MissingRequired(settings) <=> proc'[p].cfg.kind = "throw"
                   /\ ~MissingRequired(settings) =>
                         /\ proc'[p].cfg.value.PRIVY_APP_ID = settings.PRIVY_APP_ID
                         /\ proc'[p].cfg.value.PRIVY_APP_SECRET = settings.PRIVY_APP_SECRET
             /\ (proc[p].pc # "idle" /\ ~Invoked(p)) => proc'[p].cfg = proc[p].cfg]_vars
    /\ [](\A p \in DOMAIN proc :
             LET me == proc[p]
             IN  /\ me.sent # <<>> => me.cfg.kind = "value"
                 /\ \A i \in DOMAIN me.sent :
                       /\ me.sent[i].headers.privy_app_id = me.cfg.value.PRIVY_APP_ID.val
                       /\ me.sent[i].headers.authorization =
                             [scheme |-> "Basic",
                              base64_of |-> me.cfg.value.PRIVY_APP_ID.val \o ":"
                                                \o me.cfg.value.PRIVY_APP_SECRET.val]
                 /\ (me.pc = "done" /\ me.cfg.kind = "value") =>
                       /\ ~Includes(me.completion.result.response, "Privy App ID is required")
                       /\ ~Includes(me.completion.result.response, "Privy App Secret is required")
                 /\ (me.pc = "done" /\ me.cfg.kind = "throw") => ReturnedFailure(me))

\* after an invocation that created the policy, an invocation under the second set of
\* credentials has issued its request with them
C18_Witness ==
    /\ remotePolicy.exists
    /\ settings.PRIVY_APP_ID = [defined |-> TRUE, val |-> "app-2"]
    /\ proc[1].pc = "awaiting"
    /\ proc[1].action = "PRIVY_GET_WALLETS"
    /\ proc[1].sent[1].headers.privy_app_id = "app-2"
    /\ proc[1].sent[1].headers.authorization.base64_of = "app-2:k3y"

\* what validatePrivyConfig is to return for an optional setting
OptionalOf(x) == IF Given(x) THEN x ELSE [defined |-> FALSE, val |-> ""]

\* C19: while both required settings are present and non-empty, validatePrivyConfig
\* returns a value holding them unchanged, with each optional setting as the store holds
\* it when it is non-empty and absent when it is absent or empty; an invocation that is
\* awaiting its client holds the credentials the validator returned.
C19_OptionalSettings ==
    /\ ~MissingRequired(settings) =>
          LET r == validatePrivyConfig(settings)
          IN  /\ r.kind = "value"
              /\ r.value.PRIVY_APP_ID = settings.PRIVY_APP_ID
              /\ r.value.PRIVY_APP_SECRET = settings.PRIVY_APP_SECRET
              /\ r.value.PRIVY_MONAD_RPC_URL = OptionalOf(settings.PRIVY_MONAD_RPC_URL)
              /\ r.value.PRIVY_MONAD_CHAIN_ID = OptionalOf(settings.PRIVY_MONAD_CHAIN_ID)
    /\ \A p \in DOMAIN proc :
          proc[p].pc = "awaiting" =>
              \E store \in SettingsStates :
                  /\ ~MissingRequired(store)
                  /\ proc[p].creds = [privyAppID |-> store.PRIVY_APP_ID.val,
                                       privyAppSecret |-> store.PRIVY_APP_SECRET.val]

\* under a store with an RPC URL and an empty chain id, a handler has passed validation
C19_Witness ==
    /\ settings.PRIVY_MONAD_RPC_URL = [defined |-> TRUE, val |-> "https://rpc.monad"]
    /\ settings.PRIVY_MONAD_CHAIN_ID = [defined |-> TRUE, val |-> ""]
    /\ ~MissingRequired(settings)
    /\ validatePrivyConfig(settings).value.PRIVY_MONAD_CHAIN_ID = [defined |-> FALSE, val |-> ""]
    /\ proc[1].pc = "awaiting"
    /\ proc[1].creds.privyAppID = settings.PRIVY_APP_ID.val

----------------------------------------------------------------------------
(* Properties of a policy created and updated through the handlers, under SpecPolicy *)

\* the invocation is a policy update that reported success
UpdateSucceeded(me) ==
    /\ me.pc = "done"
    /\ me.action = "PRIVY_UPDATE_POLICY"
    /\ me.completion.kind = "returned"
    /\ me.completion.result.success

\* a list of MethodRules is one MethodRule for eth_sendTransaction
OneSendMethodRule(method_rules) ==
    /\ Len(method_rules) = 1
    /\ method_rules[1].method = "eth_sendTransaction"

\* C21: the policy the create operation made holds, after any sequence of successful
\* adds and removes, exactly one MethodRule, for eth_sendTransaction; so does every
\* body an update has sent.
C21_OneMethodRule ==
    /\ remotePolicy.exists => OneSendMethodRule(remotePolicy.value.method_rules)
    /\ \A p \in DOMAIN proc :
          (proc[p].action = "PRIVY_UPDATE_POLICY" /\ Len(proc[p].sent) = 2) =>
              OneSendMethodRule(proc[p].sent[2].body.method_rules)

\* a remove has succeeded on a policy that held rules added before it
C21_Witness ==
    /\ UpdateSucceeded(proc[1])
    /\ proc[1].options.remove
    /\ Len(proc[1].snapshot.method_rules[1].rules) = 2
    /\ remotePolicy.exists
    /\ Len(remotePolicy.value.method_rules) = 1
    /\ Len(remotePolicy.value.method_rules[1].rules) = 1

\* the step is a step of a policy update whose read has failed: the failing answer to its
\* GET, or a step of the client or the handler running on from it
ReadFailed(p) ==
    /\ proc[p].action = "PRIVY_UPDATE_POLICY"
    /\ proc[p].phase = "read"
    /\ proc'[p] # proc[p]
    /\ AnswerFailed(proc'[p])

\* C22: when the read of a policy update fails, the client and the handler, running on,
\* go from the answer to the handler's result without a further request, and the result is
\* success = false with the error's message; the invocation has sent its GET and nothing
\* else, and no step of it changes the remote policy.
C22_FailedReadStops ==
    [][\A p \in DOMAIN proc :
          ReadFailed(p) =>
              /\ proc'[p].sent = proc[p].sent
              /\ Len(proc'[p].sent) = 1 /\ proc'[p].sent[1].method = "GET"
              /\ remotePolicy' = remotePolicy
              /\ proc'[p].pc \in {"answered", "reading", "read", "resolved", "returned", "done"}
              /\ proc[p].pc = "read" => proc'[p].pc = "resolved"
              /\ proc[p].pc = "resolved" => proc'[p].pc = "returned"
              /\ proc[p].pc = "returned" =>
                    /\ proc'[p].pc = "done"
                    /\ proc'[p].completion =
                          Returned(Result(FALSE,
                              "Error updating policy: " \o RemoteErrorMessage(proc'[p]),
                              NoData))]_vars

\* an update of an existing policy has ended on a failed read
C22_Witness ==
    /\ proc[1].pc = "done"
    /\ proc[1].action = "PRIVY_UPDATE_POLICY"
    /\ Len(proc[1].sent) = 1
    /\ AnswerFailed(proc[1])
    /\ proc[1].completion.kind = "returned"
    /\ ~proc[1].completion.result.success
    /\ remotePolicy.exists
    /\ Len(remotePolicy.value.method_rules[1].rules) = 1

\* the number of rules, over all MethodRules, that match address a
RECURSIVE Matching(_, _)
Matching(method_rules, a) ==
    IF method_rules = <<>> THEN 0
    ELSE Cardinality({ i \in DOMAIN Head(method_rules).rules :
                          MatchesAddress(Head(method_rules).rules[i], a) })
         + Matching(Tail(method_rules), a)

\* the write of a policy update is answered in this step
WriteAnswered(p) ==
    /\ proc[p].pc = "awaiting"
    /\ proc[p].action = "PRIVY_UPDATE_POLICY"
    /\ proc[p].phase = "write"
    /\ proc'[p].pc = "answered"

\* the write of a policy update is answered in this step with a response the handler will
\* report as success
UpdateSucceeds(p) == WriteAnswered(p) /\ ~AnswerFailed(proc'[p])

\* C24: with updates applied one after another, a created policy holds no rule for any
\* address; a successful add of A raises the number of rules matching A by one and a
\* successful remove of A brings it to zero, each leaving the number for every other
\* address as it was; no step other than the answer to an update's write changes the
\* numbers. Hence the number of rules matching A is the number of adds of A since the last
\* remove of A, and is at least one exactly when the last update naming A was an add.
C24_AddsSinceLastRemove ==
    /\ [][\A a \in TokenAddresses :
             LET before == Matching(remotePolicy.value.method_rules, a)
                 after == Matching(remotePolicy'.value.method_rules, a)
             IN  /\ (~remotePolicy.exists /\ remotePolicy'.exists) => after = 0
                 /\ \A p \in DOMAIN proc :
                       UpdateSucceeds(p) =>
                           after = IF proc[p].options.tokenAddress.val # a THEN before
                                   ELSE IF proc[p].options.remove THEN 0
                                   ELSE before + 1
                 /\ (\A p \in DOMAIN proc : ~WriteAnswered(p)) => after = before]_vars
    /\ [](\A p \in DOMAIN proc :
             UpdateSucceeded(proc[p]) =>
                 (Matching(remotePolicy.value.method_rules, proc[p].options.tokenAddress.val) >= 1
                     <=> ~proc[p].options.remove))

\* the second add of a token has succeeded on a policy that also holds another token
C24_Witness ==
    /\ UpdateSucceeded(proc[1])
    /\ ~proc[1].options.remove
    /\ proc[1].options.tokenAddress = Str("0xAAA")
    /\ Matching(proc[1].snapshot.method_rules, "0xAAA") = 1
    /\ Matching(remotePolicy.value.method_rules, "0xAAA") = 2

\* C27: the body of an update's PATCH holds a name and method_rules and no other field of
\* the policy, and the name is the one the update has just read; once the policy exists,
\* no step changes its name, default action, id, version or chain type.
C27_UpdateKeepsNameAndDefault ==
    /\ [](\A p \in DOMAIN proc :
             (proc[p].action = "PRIVY_UPDATE_POLICY" /\ Len(proc[p].sent) = 2) =>
                 /\ proc[p].sent[2].method = "PATCH"
                 /\ DOMAIN proc[p].sent[2].body = {"kind", "name", "method_rules"}
                 /\ proc[p].sent[2].body.name = proc[p].snapshot.name)
    /\ [][remotePolicy.exists =>
             /\ remotePolicy'.exists
             /\ remotePolicy'.value.name = remotePolicy.value.name
             /\ remotePolicy'.value.default_action = remotePolicy.value.default_action
             /\ remotePolicy'.value.id = remotePolicy.value.id
             /\ remotePolicy'.value.version = remotePolicy.value.version
             /\ remotePolicy'.value.chain_type = remotePolicy.value.chain_type]_vars

\* an add has succeeded on a policy created under a name of the caller's
C27_Witness ==
    /\ UpdateSucceeded(proc[1])
    /\ ~proc[1].options.remove
    /\ proc[1].snapshot.name = "Treasury"
    /\ remotePolicy.value.name = "Treasury"
    /\ remotePolicy.value.default_action = "DENY"
    /\ Len(remotePolicy.value.method_rules[1].rules) = 2

----------------------------------------------------------------------------
(* Properties of wallet creation, under SpecWallet *)

\* the supported chain type the caller named, if any: ethereum when none is given
NamedChain(chainType) ==
    IF ~Given(chainType) THEN {"ethereum"}
    ELSE { n \in {"ethereum", "solana", "monad"} : SameIgnoringCase(chainType.val, n) }

\* C23: a create-wallet invocation that names ethereum, solana or monad in any case, or no
\* chain type, sends one POST to the wallets endpoint, with chain_type ethereum for
\* ethereum, monad and no chain type and solana for solana; one that names anything else
\* has sent nothing and returned success = false.
C23_ChainTypes ==
    \A p \in DOMAIN proc :
        (Started(proc[p]) /\ proc[p].action = "PRIVY_CREATE_WALLET") =>
            LET named == NamedChain(proc[p].options.chainType)
            IN  IF named = {}
                THEN /\ proc[p].sent = <<>>
                     /\ proc[p].pc = "done"
                     /\ proc[p].completion =
                           Returned(Result(FALSE,
                               "Invalid chain type. Supported chain types are: ethereum, solana, monad.",
                               NoData))
                ELSE /\ Len(proc[p].sent) = 1
                     /\ proc[p].sent[1].method = "POST"
                     /\ proc[p].sent[1].url = WALLETS_URL
                     /\ \A n \in named :
                           proc[p].sent[1].body.chain_type =
                               IF n = "solana" THEN "solana" ELSE "ethereum"

\* a wallet named MONAD has been created, requested as an ethereum wallet
C23_Witness ==
    /\ proc[1].pc = "done"
    /\ proc[1].action = "PRIVY_CREATE_WALLET"
    /\ proc[1].options.chainType = Str("MONAD")
    /\ proc[1].sent[1].body.chain_type = "ethereum"
    /\ proc[1].completion.kind = "returned"
    /\ proc[1].completion.result.success

----------------------------------------------------------------------------
(* Properties of the listing of a policy, under SpecListing *)

\* the token name a rule was added under: the n whose rule name is "Allowlist " + n
TokenNameOf(rule) ==
    CHOOSE n \in ListedNames \cup {"USDC", "WETH"} : rule.name = "Allowlist " \o n

\* the token names of all rules, MethodRule after MethodRule, rule after rule
RECURSIVE TokenNamesOf(_)
TokenNamesOf(method_rules) ==
    IF method_rules = <<>> THEN <<>>
    ELSE [i \in DOMAIN Head(method_rules).rules |-> TokenNameOf(Head(method_rules).rules[i])]
         \o TokenNamesOf(Tail(method_rules))

\* the invocation is a get-policy that reported success
GetSucceeded(me) ==
    /\ me.pc = "done"
    /\ me.action = "PRIVY_GET_POLICY"
    /\ me.completion.kind = "returned"
    /\ me.completion.result.success

\* C28: a successful get-policy lists, between the fixed words of its response and
\* separated by ", ", the token name of every rule of the policy, each as it was given to
\* the add that made the rule, in the order of the MethodRules and of the rules in each.
C28_NamesRoundTrip ==
    \A p \in DOMAIN proc :
        GetSucceeded(proc[p]) =>
            /\ proc[p].completion.result.data.val = remotePolicy.value
            /\ proc[p].completion.result.response =
                  "These are tokens that are allowed for transactions: "
                      \o Join(TokenNamesOf(remotePolicy.value.method_rules), ", ")
                      \o ". If the token you want to use is not on this list, you will need to request it to be added."

\* a policy of two MethodRules has been listed after the add of a token whose name holds
\* the words "Allowlist "
C28_Witness ==
    /\ GetSucceeded(proc[1])
    /\ Len(remotePolicy.value.method_rules) = 2
    /\ TokenNamesOf(remotePolicy.value.method_rules) = <<"USDC", "Allowlist DAI", "WETH">>

----------------------------------------------------------------------------
(* Properties of concurrent policy updates, under SpecConcurrent *)

\* the invocation is a policy update that added a token and reported success
AddSucceeded(me) ==
    /\ me.pc = "done"
    /\ me.action = "PRIVY_UPDATE_POLICY"
    /\ ~me.options.remove
    /\ me.completion.kind = "returned"
    /\ me.completion.result.success

\* the rule list of the first MethodRule of a policy
FirstRules(policy) == policy.method_rules[1].rules

\* the rule the invocation was to add
EditOf(me) == AllowRule(me.options.tokenName.val, me.options.tokenAddress.val)

\* both invocations added different tokens after reading the same snapshot of the policy
RacedUpdates(p, q) ==
    /\ AddSucceeded(proc[p]) /\ AddSucceeded(proc[q])
    /\ proc[p].snapshot = proc[q].snapshot
    /\ EditOf(proc[p]) # EditOf(proc[q])

\* C16: when two policy updates adding different tokens have read the same snapshot and
\* both reported success, each has written the snapshot plus its own rule, and the
\* remote policy is the body of one of the two writes: it holds one of the two edits
\* and has lost the other.
C16_LostUpdate ==
    \A p, q \in DOMAIN proc :
        (p # q /\ RacedUpdates(p, q)) =>
            LET snap == FirstRules(proc[p].snapshot)
                now == FirstRules(remotePolicy.value)
            IN  /\ FirstRules(proc[p].sent[2].body) = snap \o <<EditOf(proc[p])>>
                /\ FirstRules(proc[q].sent[2].body) = snap \o <<EditOf(proc[q])>>
                /\ \/ now = snap \o <<EditOf(proc[p])>>
                   \/ now = snap \o <<EditOf(proc[q])>>
                /\ Len(now) = Len(snap) + 1

\* both updates read the policy holding one rule, both reported success, and the remote
\* policy holds the second invocation's rule without the first's
C16_Witness ==
    /\ RacedUpdates(1, 2)
    /\ Len(FirstRules(proc[1].snapshot)) = 1
    /\ FirstRules(remotePolicy.value) = FirstRules(proc[1].snapshot) \o <<EditOf(proc[2])>>
    /\ \A i \in DOMAIN FirstRules(remotePolicy.value) :
          FirstRules(remotePolicy.value)[i] # EditOf(proc[1])

----------------------------------------------------------------------------
(* Properties of the resource clients, under SpecClient *)

\* the client's last response had a non-success HTTP status
ErrorStatus(c) == c.answer.kind = "http" /\ ~c.answer.ok

\* C12: an operation that ended on a non-success HTTP status has failed with an error
\* whose message is the message field of the JSON error body, and the status text
\* when the body is not JSON or has no message field.
C12_ErrorMessage ==
    (client.pc = "done" /\ ErrorStatus(client)) =>
        /\ client.settled.kind = "rejected"
        /\ client.settled.error.message =
              IF client.answer.json /\ client.answer.message.defined
              THEN client.answer.message.val
              ELSE client.answer.statusText

\* the value of the Authorization header for an App ID and an App Secret
BasicAuth(id, secret) == [scheme |-> "Basic", base64_of |-> id \o ":" \o secret]

\* C14: every request a client has issued carries the Basic authorization header built
\* from appId:appSecret and, when the client was given an authorization request key,
\* the privy-authorization-signature header holding that key.
C14_AuthHeaders ==
    \A i \in DOMAIN client.sent :
        /\ client.sent[i].headers.authorization =
              BasicAuth(client.svc.privyAppID, client.svc.privyAppSecret)
        /\ Given(client.svc.authRequestKey) =>
              client.sent[i].headers.privy_authorization_signature = client.svc.authRequestKey

====
